---- MODULE Spec2Model ----
(***************************************************************************)
(* The Intcode virtual machine of intcode/src/lib.rs: instruction decode,  *)
(* operand resolution, single step, and run-to-completion (execute_ex) on  *)
(* a private clone.                                                        *)
(*                                                                         *)
(* Conventions.                                                            *)
(*  - Rust vectors are 0-indexed; cell a of mem is the sequence element    *)
(*    mem[a + 1].                                                          *)
(*  - An i64 converted with `as usize` keeps its value when non-negative   *)
(*    and becomes a value >= 2^63 when negative.  Such a value is larger   *)
(*    than any vector length, so the model keeps the signed number and     *)
(*    treats a negative index as lying beyond every length (InBounds).     *)
(*  - A Rust panic is an outcome of its own ("panic"), distinct from the   *)
(*    Ok(()) and Err(ProgramHalt) results of step.                         *)
(*  - Cell values stay far inside the i64 range for the programs and       *)
(*    inputs enumerated first, so + and * never overflow; the last part    *)
(*    runs the machine on cells of 64 bits, where they can.                *)
(***************************************************************************)
EXTENDS Integers, Sequences, FiniteSets, TLC

\* ------------------------------------------------------------------ bounds
MaxInput == 9
MaxDirectSteps == 2
MaxPostHaltSteps == 2
MaxRuns == 2
MaxFuel == 120
MaxPokes == 1
MaxBeyond == 3

\* ------------------------------------------------------- opcode constants
OPCODE_ADD == 1
OPCODE_MUL == 2
OPCODE_IN == 3
OPCODE_OUT == 4
OPCODE_JIT == 5
OPCODE_JIF == 6
OPCODE_LT == 7
OPCODE_EQ == 8
OPCODE_BASE == 9
OPCODE_HALT == 99

\* ----------------------------------------------------- integer arithmetic
\* Rust's % on i64: remainder with the sign of the dividend.
Rem(a, b) == IF a >= 0 THEN a % b ELSE -((-a) % b)

\* Rust's / on i64: quotient truncated toward zero.
Quot(a, b) == IF a >= 0 THEN a \div b ELSE -((-a) \div b)

\* i64::pow for base 10.
RECURSIVE Pow10(_)
Pow10(exp) == IF exp = 0 THEN 1 ELSE 10 * Pow10(exp - 1)

\* `addr as usize` indexes an existing element of mem.
InBounds(addr, mem) == addr >= 0 /\ addr < Len(mem)

\* ------------------------------------------------------------ the decoder
\* get_param_mode with the exponent one too small.
get_param_mode_low_digit(buf, index, slot) ==
    LET digit == Rem(Quot(buf[index + 1], Pow10(slot + 1)), 10)
    IN  IF digit = 1 THEN "DIRECT"
        ELSE IF digit = 2 THEN "RELATIVE"
        ELSE "POSITION"

\* The closure get_param_mode of Instruction::new.
get_param_mode(buf, index, slot) ==
    LET digit == Rem(Quot(buf[index + 1], Pow10(slot + 2)), 10)
    IN  IF digit = 1 THEN "DIRECT"
        ELSE IF digit = 2 THEN "RELATIVE"
        ELSE "POSITION"

\* The match on raw_op with a last arm that halts instead of panicking.
OperationOf_unknown_halts(raw_op) ==
    CASE raw_op = OPCODE_ADD  -> "ADD"
      [] raw_op = OPCODE_MUL  -> "MUL"
      [] raw_op = OPCODE_IN   -> "IN"
      [] raw_op = OPCODE_OUT  -> "OUT"
      [] raw_op = OPCODE_JIT  -> "JIT"
      [] raw_op = OPCODE_JIF  -> "JIF"
      [] raw_op = OPCODE_LT   -> "LT"
      [] raw_op = OPCODE_EQ   -> "EQ"
      [] raw_op = OPCODE_BASE -> "BASE"
      [] OTHER                -> "HALT"

\* The match on raw_op: the operation, or "UNKNOWN" for the panic arm.
OperationOf(raw_op) ==
    CASE raw_op = OPCODE_ADD  -> "ADD"
      [] raw_op = OPCODE_MUL  -> "MUL"
      [] raw_op = OPCODE_IN   -> "IN"
      [] raw_op = OPCODE_OUT  -> "OUT"
      [] raw_op = OPCODE_JIT  -> "JIT"
      [] raw_op = OPCODE_JIF  -> "JIF"
      [] raw_op = OPCODE_LT   -> "LT"
      [] raw_op = OPCODE_EQ   -> "EQ"
      [] raw_op = OPCODE_BASE -> "BASE"
      [] raw_op = OPCODE_HALT -> "HALT"
      [] OTHER                -> "UNKNOWN"

\* The parameter count the same match pairs with each operation.
ParamCount(op) ==
    CASE op \in {"ADD", "MUL", "LT", "EQ"} -> 3
      [] op \in {"JIT", "JIF"}             -> 2
      [] op \in {"IN", "OUT", "BASE"}      -> 1
      [] OTHER                             -> 0

NoInstruction(why) ==
    [panic |-> why, op |-> "UNKNOWN", params |-> <<>>, param_modes |-> <<>>]

\* Instruction::new(buf, index).  buf[index] and buf[index + i + 1] are
\* bounds-checked vector accesses: an index outside buf panics.
InstructionNew(buf, index) ==
    IF ~InBounds(index, buf) THEN NoInstruction("index_out_of_bounds")
    ELSE LET raw_op == Rem(buf[index + 1], 100)
             op == OperationOf(raw_op)
             param_count == ParamCount(op)
         IN  IF op = "UNKNOWN" THEN NoInstruction("unknown_opcode")
             ELSE IF param_count > 0 /\ ~InBounds(index + param_count, buf)
                  THEN NoInstruction("index_out_of_bounds")
             ELSE [panic |-> "none",
                   op |-> op,
                   params |-> [i \in 1..param_count |-> buf[index + i + 1]],
                   param_modes |-> [i \in 1..param_count |->
                                       get_param_mode(buf, index, i - 1)]]

\* ------------------------------------------------------ operand resolution
\* read that leaves the relative base out of a RELATIVE address.
read_without_base(mem, param, param_mode, base) ==
    IF param_mode = "DIRECT" THEN param
    ELSE LET addr == param
         IN  IF ~InBounds(addr, mem) THEN 0 ELSE mem[addr + 1]

\* read that returns the last cell for an address beyond the memory.
read_clamped(mem, param, param_mode, base) ==
    IF param_mode = "DIRECT" THEN param
    ELSE LET addr == IF param_mode = "POSITION" THEN param ELSE param + base
         IN  IF addr < 0 \/ mem = <<>> THEN 0
             ELSE IF addr >= Len(mem) THEN mem[Len(mem)]
             ELSE mem[addr + 1]

\* read(mem, param, param_mode, base)
read(mem, param, param_mode, base) ==
    IF param_mode = "DIRECT" THEN param
    ELSE LET addr == IF param_mode = "POSITION" THEN param ELSE param + base
         IN  IF ~InBounds(addr, mem) THEN 0 ELSE mem[addr + 1]

\* write that stores the value only into a cell it has just allocated.
write_only_when_grown(mem, value, position, param_mode, base) ==
    IF param_mode = "DIRECT"
    THEN [mem |-> mem, panic |-> "write_in_direct_mode"]
    ELSE LET addr == IF param_mode = "POSITION" THEN position
                     ELSE position + base
         IN  IF addr < 0 THEN [mem |-> mem, panic |-> "capacity_overflow"]
             ELSE IF addr >= Len(mem)
             THEN [mem |-> mem \o [i \in 1..(addr + 1 - Len(mem)) |->
                                      IF i = addr + 1 - Len(mem) THEN value
                                      ELSE 0],
                   panic |-> "none"]
             ELSE [mem |-> mem, panic |-> "none"]

\* write that fills the cells it allocates with the value.
write_fill_value(mem, value, position, param_mode, base) ==
    IF param_mode = "DIRECT"
    THEN [mem |-> mem, panic |-> "write_in_direct_mode"]
    ELSE LET addr == IF param_mode = "POSITION" THEN position
                     ELSE position + base
         IN  IF addr < 0 THEN [mem |-> mem, panic |-> "capacity_overflow"]
             ELSE LET grown == IF addr >= Len(mem)
                               THEN mem \o [i \in 1..(addr + 1 - Len(mem)) |->
                                               value]
                               ELSE mem
                  IN  [mem |-> [grown EXCEPT ![addr + 1] = value],
                       panic |-> "none"]

\* write that takes a DIRECT destination for a POSITION one.
write_direct_as_position(mem, value, position, param_mode, base) ==
    LET addr == IF param_mode = "RELATIVE" THEN position + base
                ELSE position
    IN  IF addr < 0 THEN [mem |-> mem, panic |-> "capacity_overflow"]
        ELSE LET grown == IF addr >= Len(mem)
                          THEN mem \o [i \in 1..(addr + 1 - Len(mem)) |-> 0]
                          ELSE mem
             IN  [mem |-> [grown EXCEPT ![addr + 1] = value],
                  panic |-> "none"]

\* write that leaves the relative base out of a RELATIVE address.
write_without_base(mem, value, position, param_mode, base) ==
    IF param_mode = "DIRECT"
    THEN [mem |-> mem, panic |-> "write_in_direct_mode"]
    ELSE LET addr == position
         IN  IF addr < 0 THEN [mem |-> mem, panic |-> "capacity_overflow"]
             ELSE LET grown == IF addr >= Len(mem)
                               THEN mem \o [i \in 1..(addr + 1 - Len(mem)) |-> 0]
                               ELSE mem
                  IN  [mem |-> [grown EXCEPT ![addr + 1] = value],
                       panic |-> "none"]

\* write that also clears the cell after the one it stores into.
write_clears_next(mem, value, position, param_mode, base) ==
    IF param_mode = "DIRECT"
    THEN [mem |-> mem, panic |-> "write_in_direct_mode"]
    ELSE LET addr == IF param_mode = "POSITION" THEN position
                     ELSE position + base
         IN  IF addr < 0 THEN [mem |-> mem, panic |-> "capacity_overflow"]
             ELSE LET grown == IF addr >= Len(mem)
                               THEN mem \o [i \in 1..(addr + 1 - Len(mem)) |-> 0]
                               ELSE mem
                  IN  [mem |-> [i \in 1..Len(grown) |->
                                   IF i = addr + 1 THEN value
                                   ELSE IF i = addr + 2 THEN 0
                                   ELSE grown[i]],
                       panic |-> "none"]

\* write(mem, value, position, param_mode, base): the memory afterwards, or
\* the panic that ended it.  A negative address is a usize near 2^64, whose
\* resize cannot be allocated.
write(mem, value, position, param_mode, base) ==
    IF param_mode = "DIRECT"
    THEN [mem |-> mem, panic |-> "write_in_direct_mode"]
    ELSE LET addr == IF param_mode = "POSITION" THEN position
                     ELSE position + base
         IN  IF addr < 0 THEN [mem |-> mem, panic |-> "capacity_overflow"]
             ELSE LET grown == IF addr >= Len(mem)
                               THEN mem \o [i \in 1..(addr + 1 - Len(mem)) |-> 0]
                               ELSE mem
                  IN  [mem |-> [grown EXCEPT ![addr + 1] = value],
                       panic |-> "none"]

\* ---------------------------------------------------------------- Program
\* Program::from_str on the text whose integers are instructions.  Option
\* values are sequences of length 0 (None) or 1 (Some).
from_str(instructions) ==
    [name |-> "",
     mem |-> instructions,
     mem_offset |-> 0,
     instruction_index |-> 0,
     output |-> <<>>,
     halted |-> FALSE]

\* An outcome of step that called input_fn whatever the instruction.
StepOutcome_eager_input(p, result, panic, in_calls, outs) ==
    [prg |-> p, result |-> result, panic |-> panic,
     in_calls |-> 1, outs |-> outs]

\* An outcome of step that reports Ok where step returns the halted-program
\* error.
StepOutcome_halt_is_ok(p, result, panic, in_calls, outs) ==
    [prg |-> p, result |-> IF result = "ProgramHalt" THEN "Ok" ELSE result,
     panic |-> panic, in_calls |-> in_calls, outs |-> outs]

\* The outcome of one call of step: the Program afterwards, the result
\* ("Ok", "ProgramHalt" or "panic"), the panic message kind, and the calls
\* made to input_fn and output_fn.
StepOutcome(p, result, panic, in_calls, outs) ==
    [prg |-> p, result |-> result, panic |-> panic,
     in_calls |-> in_calls, outs |-> outs]

\* The closures passed to binary_op.
OpFn(op, v1, v2) ==
    CASE op = "ADD" -> v1 + v2
      [] op = "MUL" -> v1 * v2
      [] op = "LT"  -> IF v1 < v2 THEN 1 ELSE 0
      [] op = "EQ"  -> IF v1 = v2 THEN 1 ELSE 0

\* The closure binary_op of step, applied to the Program p whose
\* instruction_index was already advanced by 1.
binary_op(p, instruction) ==
    LET val1 == read(p.mem, instruction.params[1],
                     instruction.param_modes[1], p.mem_offset)
        val2 == read(p.mem, instruction.params[2],
                     instruction.param_modes[2], p.mem_offset)
        w == write(p.mem, OpFn(instruction.op, val1, val2),
                   instruction.params[3], instruction.param_modes[3],
                   p.mem_offset)
    IN  IF w.panic # "none"
        THEN StepOutcome(p, "panic", w.panic, 0, <<>>)
        ELSE StepOutcome([p EXCEPT !.mem = w.mem,
                                   !.instruction_index = @ + 3],
                         "Ok", "none", 0, <<>>)

\* The jump arms with a target taken relative to the instruction.
jump_op_relative(p, instruction) ==
    LET val == read(p.mem, instruction.params[1],
                    instruction.param_modes[1], p.mem_offset)
        dst == read(p.mem, instruction.params[2],
                    instruction.param_modes[2], p.mem_offset)
        taken == IF instruction.op = "JIT" THEN val # 0 ELSE val = 0
    IN  StepOutcome([p EXCEPT !.instruction_index =
                                  IF taken THEN @ + dst ELSE @ + 2],
                    "Ok", "none", 0, <<>>)

\* The JIT and JIF arms of step.
jump_op(p, instruction) ==
    LET val == read(p.mem, instruction.params[1],
                    instruction.param_modes[1], p.mem_offset)
        dst == read(p.mem, instruction.params[2],
                    instruction.param_modes[2], p.mem_offset)
        taken == IF instruction.op = "JIT" THEN val # 0 ELSE val = 0
    IN  StepOutcome([p EXCEPT !.instruction_index =
                                  IF taken THEN dst ELSE @ + 2],
                    "Ok", "none", 0, <<>>)

\* step whose opcode 9 assigns read(p1) to the relative base.
step_base_assigned(self, in_val) ==
    LET instruction == InstructionNew(self.mem, self.instruction_index)
    IN  IF instruction.panic # "none"
        THEN StepOutcome(self, "panic", instruction.panic, 0, <<>>)
        ELSE IF self.halted
        THEN StepOutcome(self, "ProgramHalt", "none", 0, <<>>)
        ELSE
        LET p == [self EXCEPT !.instruction_index = @ + 1, !.output = <<>>]
        IN  CASE instruction.op \in {"ADD", "MUL", "LT", "EQ"} ->
                   binary_op(p, instruction)
              [] instruction.op = "IN" ->
                   LET w == write(p.mem, in_val, instruction.params[1],
                                  instruction.param_modes[1], p.mem_offset)
                   IN  IF w.panic # "none"
                       THEN StepOutcome(p, "panic", w.panic, 1, <<>>)
                       ELSE StepOutcome([p EXCEPT !.mem = w.mem,
                                                  !.instruction_index = @ + 1],
                                        "Ok", "none", 1, <<>>)
              [] instruction.op = "OUT" ->
                   LET val == read(p.mem, instruction.params[1],
                                   instruction.param_modes[1], p.mem_offset)
                   IN  StepOutcome([p EXCEPT !.output = <<val>>,
                                             !.instruction_index = @ + 1],
                                   "Ok", "none", 0, <<val>>)
              [] instruction.op \in {"JIT", "JIF"} ->
                   jump_op(p, instruction)
              [] instruction.op = "BASE" ->
                   LET val == read(p.mem, instruction.params[1],
                                   instruction.param_modes[1], p.mem_offset)
                   IN  StepOutcome([p EXCEPT !.mem_offset = val,
                                             !.instruction_index = @ + 1],
                                   "Ok", "none", 0, <<>>)
              [] instruction.op = "HALT" ->
                   StepOutcome([p EXCEPT !.halted = TRUE],
                               "ProgramHalt", "none", 0, <<>>)

\* Program::step(input_fn, output_fn) where input_fn returns in_val.
step(self, in_val) ==
    LET instruction == InstructionNew(self.mem, self.instruction_index)
    IN  IF instruction.panic # "none"
        THEN StepOutcome(self, "panic", instruction.panic, 0, <<>>)
        ELSE IF self.halted
        THEN StepOutcome(self, "ProgramHalt", "none", 0, <<>>)
        ELSE
        LET p == [self EXCEPT !.instruction_index = @ + 1, !.output = <<>>]
        IN  CASE instruction.op \in {"ADD", "MUL", "LT", "EQ"} ->
                   binary_op(p, instruction)
              [] instruction.op = "IN" ->
                   LET w == write(p.mem, in_val, instruction.params[1],
                                  instruction.param_modes[1], p.mem_offset)
                   IN  IF w.panic # "none"
                       THEN StepOutcome(p, "panic", w.panic, 1, <<>>)
                       ELSE StepOutcome([p EXCEPT !.mem = w.mem,
                                                  !.instruction_index = @ + 1],
                                        "Ok", "none", 1, <<>>)
              [] instruction.op = "OUT" ->
                   LET val == read(p.mem, instruction.params[1],
                                   instruction.param_modes[1], p.mem_offset)
                   IN  StepOutcome([p EXCEPT !.output = <<val>>,
                                             !.instruction_index = @ + 1],
                                   "Ok", "none", 0, <<val>>)
              [] instruction.op \in {"JIT", "JIF"} ->
                   jump_op(p, instruction)
              [] instruction.op = "BASE" ->
                   LET val == read(p.mem, instruction.params[1],
                                   instruction.param_modes[1], p.mem_offset)
                   IN  StepOutcome([p EXCEPT !.mem_offset = @ + val,
                                             !.instruction_index = @ + 1],
                                   "Ok", "none", 0, <<>>)
              [] instruction.op = "HALT" ->
                   StepOutcome([p EXCEPT !.halted = TRUE],
                               "ProgramHalt", "none", 0, <<>>)

\* ------------------------------------------------------- program images
\* "3,0,4,0,99" (tests::io_test)
Echo == <<3, 0, 4, 0, 99>>
\* tests::test_eq_position and tests::test_lt_position
EqPosition == <<3, 9, 8, 9, 10, 9, 4, 9, 99, -1, 8>>
LtPosition == <<3, 9, 7, 9, 10, 9, 4, 9, 99, -1, 8>>
\* tests::test_eq_direct and tests::test_lt_direct
EqDirect == <<3, 3, 1108, -1, 8, 3, 4, 3, 99>>
LtDirect == <<3, 3, 1107, -1, 8, 3, 4, 3, 99>>
\* tests::jump_position and tests::jump_direct
JumpPosition == <<3, 12, 6, 12, 15, 1, 13, 14, 13, 4, 13, 99, -1, 0, 1, 9>>
JumpDirect == <<3, 3, 1105, -1, 9, 1101, 0, 0, 12, 4, 12, 99, 1>>
\* tests::quine
Quine == <<109, 1, 204, -1, 1001, 100, 1, 100, 1008, 100, 16, 101,
           1006, 101, 0, 99>>
\* Further texts from_str accepts: a lone halt, a halt followed by another
\* cell, and an addition that runs off the end of the text.
HaltOnly == <<99>>
HaltThenCell == <<99, 99>>
AddNoHalt == <<1101, 1, 1, 0>>

Programs == {Echo, EqPosition, LtPosition, EqDirect, LtDirect, JumpPosition,
             JumpDirect, Quine, HaltOnly, HaltThenCell, AddNoHalt}

\* Texts for the single instructions: a mode digit that is none of 0, 1, 2
ModeDigit3Out == <<304, 0, 99>>
ModeDigit7Add == <<70001, 5, 6, 0, 99>>
\* a cell whose two low digits are no opcode, and a negative cell
UnknownOpZero == <<0, 99>>
UnknownOp98 == <<1198, 0, 0, 0, 99>>
NegativeCell == <<-1, 99>>
\* a destination parameter in immediate mode, for opcodes 1, 2, 7, 8 and 3
DirectDestAdd == <<11101, 2, 3, 0, 99>>
DirectDestMul == <<11102, 2, 3, 0, 99>>
DirectDestLt == <<11107, 2, 3, 0, 99>>
DirectDestEq == <<11108, 2, 3, 0, 99>>
DirectDestIn == <<103, 0, 99>>
\* operand reads at and beyond the length of the memory
ReadAtLength == <<4, 3, 99>>
ReadBeyondPos == <<4, 50, 99>>
ReadBeyondRel == <<109, 20, 204, 5, 99>>
\* writes at and beyond the length of the memory
WriteAtLength == <<1101, 2, 3, 5, 99>>
WriteBeyond == <<3, 7, 99>>
WriteBeyondRel == <<109, 4, 21101, 7, 8, 5, 99>>

StepTexts == {ModeDigit3Out, ModeDigit7Add, UnknownOpZero, UnknownOp98,
              NegativeCell, DirectDestAdd, DirectDestMul, DirectDestLt,
              DirectDestEq, DirectDestIn, ReadAtLength, ReadBeyondPos,
              ReadBeyondRel, WriteAtLength, WriteBeyond, WriteBeyondRel,
              Echo, EqDirect, JumpDirect, HaltOnly, HaltThenCell}

\* The values the input closures return for the single instructions.
StepInputValues == {-1, MaxInput}

\* The values a client pokes.
PokeValues == {2, 99}

\* The values an input closure of a client returns.
InputValues == {-1} \cup (0..MaxInput)

\* ------------------------------------------------------------------ state
VARIABLES
    text,           \* the integers the Program was constructed from
    prog,           \* the Program the client owns (self)
    prg,            \* the clone of execute_ex: <<>> or <<Program>>
    pc,             \* "idle", "running", "returned", "panicked"
    input,          \* the value the input closure of the current run returns
    out,            \* the values passed to output_fn in the current run
    inCalls,        \* calls of input_fn in the current run
    stepCalls,      \* calls of step on the clone in the current run
    postHaltSteps,  \* calls of step on the clone made after it had halted
    directSteps,    \* calls of step the client made on prog itself
    callee,         \* prog as it was when execute_ex was called
    runs,           \* the runs that returned: <<[input, out]>>
    lastStep,       \* the latest call of step: whose, the Program before
                    \* and after, the result, the calls of the closures
    pokes,          \* calls of poke the client made on prog
    \* the feedback ring of day7 (part2)
    amps,           \* the five amplifier threads of spawn_amp
    chans,          \* chans[i]: the values in flight to the Receiver of amp i
    part2,          \* the main thread: the joins and the output
    \* the network of day23 (main)
    nodes,          \* the Programs of the nodes
    packets,        \* the PacketQueue: address -> queue of packets
    nat,            \* Option<Packet>: <<>> or <<packet>>
    nat_ys,         \* the set of the y values already injected
    sched           \* the position of main in its loops, and its locals

\* The variables of a client of one Program.
vmVars == <<text, prog, prg, pc, input, out, inCalls, stepCalls,
            postHaltSteps, directSteps, callee, runs, lastStep, pokes>>

\* The variables of the clients of several Programs.
clientVars == <<amps, chans, part2, nodes, packets, nat, nat_ys, sched>>

vars == <<vmVars, clientVars>>

\* No ring and no network has been set up.
NoClients ==
    /\ amps = <<>>
    /\ chans = <<>>
    /\ part2 = [pc |-> "none"]
    /\ nodes = <<>>
    /\ packets = <<>>
    /\ nat = <<>>
    /\ nat_ys = {}
    /\ sched = [pc |-> "none"]

NoStep == [on |-> "none", halted_before |-> FALSE, result |-> "none",
           panic |-> "none", before |-> from_str(<<>>),
           after |-> from_str(<<>>), in_calls |-> 0, outs |-> <<>>]

\* The record of a call of step on the Program before with the outcome r.
StepRecord(on, before, r) ==
    [on |-> on, halted_before |-> before.halted, result |-> r.result,
     panic |-> r.panic, before |-> before, after |-> r.prg,
     in_calls |-> r.in_calls, outs |-> r.outs]

Init ==
    /\ text \in Programs
    /\ prog = from_str(text)
    /\ prg = <<>>
    /\ pc = "idle"
    /\ input = 0
    /\ out = <<>>
    /\ inCalls = 0
    /\ stepCalls = 0
    /\ postHaltSteps = 0
    /\ directSteps = 0
    /\ callee = from_str(text)
    /\ runs = <<>>
    /\ lastStep = NoStep
    /\ pokes = 0
    /\ NoClients

\* The client calls prog.step with an input closure returning v.
StepCall(v) ==
    /\ pc \in {"idle", "returned"}
    /\ directSteps < MaxDirectSteps
    /\ LET r == step(prog, v)
       IN  /\ prog' = r.prg
           /\ pc' = IF r.result = "panic" THEN "panicked" ELSE "idle"
           /\ lastStep' = StepRecord("self", prog, r)
    /\ directSteps' = directSteps + 1
    /\ prg' = <<>>
    /\ UNCHANGED <<text, input, out, inCalls, stepCalls, postHaltSteps,
                   callee, runs, pokes>>
    /\ UNCHANGED clientVars

\* execute_ex that goes on with the clone of the call before, if any.
ExecuteExCall_reused_clone(v) ==
    /\ pc \in {"idle", "returned"}
    /\ Len(runs) < MaxRuns
    /\ prg' = IF Len(prg) = 1 THEN prg ELSE <<prog>>
    /\ callee' = prog
    /\ input' = v
    /\ out' = <<>>
    /\ inCalls' = 0
    /\ stepCalls' = 0
    /\ postHaltSteps' = 0
    /\ pc' = "running"
    /\ UNCHANGED <<text, prog, directSteps, runs, lastStep, pokes>>
    /\ UNCHANGED clientVars

\* execute_ex is entered with an input closure returning v: the clone.
ExecuteExCall(v) ==
    /\ pc \in {"idle", "returned"}
    /\ Len(runs) < MaxRuns
    /\ prg' = <<prog>>
    /\ callee' = prog
    /\ input' = v
    /\ out' = <<>>
    /\ inCalls' = 0
    /\ stepCalls' = 0
    /\ postHaltSteps' = 0
    /\ pc' = "running"
    /\ UNCHANGED <<text, prog, directSteps, runs, lastStep, pokes>>
    /\ UNCHANGED clientVars

\* The condition of the while loop of execute_ex.
LoopCondition ==
    InBounds(prg[1].instruction_index, prog.mem) /\ ~prog.halted

\* An iteration that steps self itself, the clone only mirroring it.
ExecuteExIter_steps_self ==
    /\ pc = "running"
    /\ LoopCondition
    /\ prg[1].halted => postHaltSteps < MaxPostHaltSteps
    /\ LET r == step(prg[1], input)
       IN  /\ prg' = <<r.prg>>
           /\ prog' = r.prg
           /\ out' = out \o r.outs
           /\ inCalls' = inCalls + r.in_calls
           /\ pc' = IF r.result = "panic" THEN "panicked" ELSE "running"
           /\ lastStep' = StepRecord("clone", prg[1], r)
    /\ stepCalls' = stepCalls + 1
    /\ postHaltSteps' = IF prg[1].halted THEN postHaltSteps + 1
                        ELSE postHaltSteps
    /\ UNCHANGED <<text, input, directSteps, callee, runs, pokes>>
    /\ UNCHANGED clientVars

\* One iteration of the while loop: the condition holds, step the clone.
ExecuteExIter ==
    /\ pc = "running"
    /\ LoopCondition
    /\ prg[1].halted => postHaltSteps < MaxPostHaltSteps
    /\ LET r == step(prg[1], input)
       IN  /\ prg' = <<r.prg>>
           /\ out' = out \o r.outs
           /\ inCalls' = inCalls + r.in_calls
           /\ pc' = IF r.result = "panic" THEN "panicked" ELSE "running"
           /\ lastStep' = StepRecord("clone", prg[1], r)
    /\ stepCalls' = stepCalls + 1
    /\ postHaltSteps' = IF prg[1].halted THEN postHaltSteps + 1
                        ELSE postHaltSteps
    /\ UNCHANGED <<text, prog, input, directSteps, callee, runs, pokes>>
    /\ UNCHANGED clientVars

\* The condition fails: execute_ex returns.
ExecuteExReturn ==
    /\ pc = "running"
    /\ ~LoopCondition
    /\ pc' = "returned"
    /\ runs' = Append(runs, [input |-> input, out |-> out])
    /\ UNCHANGED <<text, prog, prg, input, out, inCalls, stepCalls,
                   postHaltSteps, directSteps, callee, lastStep, pokes>>
    /\ UNCHANGED clientVars

\* poke that takes the address relative to the relative base.
Poke_relative(addr, val) ==
    /\ pc \in {"idle", "returned"}
    /\ pokes < MaxPokes
    /\ LET w == write(prog.mem, val, addr, "RELATIVE", prog.mem_offset)
       IN  /\ prog' = [prog EXCEPT !.mem = w.mem]
           /\ pc' = IF w.panic # "none" THEN "panicked" ELSE "idle"
    /\ pokes' = pokes + 1
    /\ prg' = <<>>
    /\ UNCHANGED <<text, input, out, inCalls, stepCalls, postHaltSteps,
                   directSteps, callee, runs, lastStep>>
    /\ UNCHANGED clientVars

\* poke that also clears the halted flag.
Poke_resets_halted(addr, val) ==
    /\ pc \in {"idle", "returned"}
    /\ pokes < MaxPokes
    /\ LET w == write(prog.mem, val, addr, "POSITION", 0)
       IN  /\ prog' = [prog EXCEPT !.mem = w.mem, !.halted = FALSE]
           /\ pc' = IF w.panic # "none" THEN "panicked" ELSE "idle"
    /\ pokes' = pokes + 1
    /\ prg' = <<>>
    /\ UNCHANGED <<text, input, out, inCalls, stepCalls, postHaltSteps,
                   directSteps, callee, runs, lastStep>>
    /\ UNCHANGED clientVars

\* The client calls prog.poke(addr, val).
Poke(addr, val) ==
    /\ pc \in {"idle", "returned"}
    /\ pokes < MaxPokes
    /\ LET w == write(prog.mem, val, addr, "POSITION", 0)
       IN  /\ prog' = [prog EXCEPT !.mem = w.mem]
           /\ pc' = IF w.panic # "none" THEN "panicked" ELSE "idle"
    /\ pokes' = pokes + 1
    /\ prg' = <<>>
    /\ UNCHANGED <<text, input, out, inCalls, stepCalls, postHaltSteps,
                   directSteps, callee, runs, lastStep>>
    /\ UNCHANGED clientVars

Next ==
    \/ \E v \in InputValues : StepCall(v)
    \/ \E v \in InputValues : ExecuteExCall(v)
    \/ ExecuteExIter
    \/ ExecuteExReturn

Spec == Init /\ [][Next]_vars

\* The single instructions: a Program constructed from one of StepTexts,
\* which the client pokes, steps and runs to completion.
InitStep ==
    /\ text \in StepTexts
    /\ prog = from_str(text)
    /\ prg = <<>>
    /\ pc = "idle"
    /\ input = 0
    /\ out = <<>>
    /\ inCalls = 0
    /\ stepCalls = 0
    /\ postHaltSteps = 0
    /\ directSteps = 0
    /\ callee = from_str(text)
    /\ runs = <<>>
    /\ lastStep = NoStep
    /\ pokes = 0
    /\ NoClients

NextStep ==
    \/ \E v \in StepInputValues : StepCall(v)
    \/ \E addr \in {0, Len(prog.mem) + 1}, val \in PokeValues :
          Poke(addr, val)
    \/ \E v \in StepInputValues : ExecuteExCall(v)
    \/ ExecuteExIter
    \/ ExecuteExReturn

SpecStep == InitStep /\ [][NextStep]_vars

\* ----------------------------------------------------------------- typing
TypeOK ==
    /\ text \in Programs \cup StepTexts
    /\ pc \in {"idle", "running", "returned", "panicked"}
    /\ Len(prg) <= 1
    /\ (pc # "idle") => Len(prg) = 1 \/ lastStep.on = "self"
    /\ input \in InputValues
    /\ Len(runs) <= MaxRuns
    /\ directSteps <= MaxDirectSteps
    /\ postHaltSteps <= MaxPostHaltSteps
    /\ pokes <= MaxPokes

\* ------------------------------------------- execute_ex as a function
\* The while loop of execute_ex on the clone p of self_, with an input
\* closure returning v, as the value it computes: how the call ends and the
\* values it passed to output_fn.  A step on a halted clone changes nothing,
\* so a loop whose condition holds for a halted clone never ends.
RECURSIVE RunLoop(_, _, _, _, _)
RunLoop(self_, p, v, outs, fuel) ==
    IF ~(InBounds(p.instruction_index, self_.mem) /\ ~self_.halted)
    THEN [status |-> "returned", out |-> outs]
    ELSE IF fuel = 0 THEN [status |-> "running", out |-> outs]
    ELSE LET r == step(p, v)
         IN  IF r.result = "panic"
             THEN [status |-> "panicked", out |-> outs \o r.outs]
             ELSE IF p.halted
             THEN [status |-> "spinning", out |-> outs]
             ELSE RunLoop(self_, r.prg, v, outs \o r.outs, fuel - 1)

execute_ex(self_, v) == RunLoop(self_, self_, v, <<>>, MaxFuel)

\* ------------------------------------------------------------- the claims
\* The current call of execute_ex was made on a freshly constructed Program.
FreshRun == Len(prg) = 1 /\ callee = from_str(text)

\* C1: after opcode 99 has executed, every later call of step returns
\* Err(ProgramHalt) and fails in no other way.  (As claimed; the code decodes
\* the cell at the instruction pointer before it looks at the halted flag.)
C1_HaltedStepRejected ==
    lastStep.halted_before => lastStep.result = "ProgramHalt"

\* C2: execute_ex returns right after the step that executes opcode 99 and
\* makes no further call of step on the halted clone.  (As claimed; the loop
\* tests the halted flag of self, not of the clone.)
C2_NoStepAfterHalt ==
    Len(prg) = 1 => postHaltSteps = 0

\* C3: execute_ex never returns while its clone is still Ready.  (As
\* claimed; the loop also ends when the clone's instruction pointer reaches
\* the length of the memory of self.)
C3_ReturnsOnlyHalted ==
    pc = "returned" => prg[1].halted

\* C4: execute_ex never mutates the Program it is invoked on: while the call
\* runs and after it has ended, memory, instruction pointer, relative base
\* and halted flag of self are what they were when it was called.
C4_OriginalNotMutated ==
    Len(prg) = 1 => prog = callee

\* A run has returned whose clone ended with another memory, instruction
\* pointer and halted flag than self.
C4_Witness ==
    /\ pc = "returned"
    /\ stepCalls > 0
    /\ prg[1].mem # prog.mem
    /\ prg[1].instruction_index # prog.instruction_index
    /\ prg[1].halted # prog.halted
    /\ prog = callee

\* C5: of two calls of execute_ex on the same constructed Program, with
\* inputs A then B, the second passes to output_fn exactly what a call with
\* input B on a freshly constructed Program passes.
C5_NonInterference ==
    (pc = "returned" /\ Len(runs) >= 2 /\ directSteps = 0) =>
        LET fresh == execute_ex(from_str(text), input)
        IN  fresh.status = "returned" /\ out = fresh.out

\* The second run has returned, on another input and with another output
\* than the first.
C5_Witness ==
    /\ pc = "returned"
    /\ Len(runs) = 2
    /\ directSteps = 0
    /\ runs[1].input # input
    /\ runs[1].out # out
    /\ out # <<>>

\* The current run has ended, by a return or by a panic.
RunEnded == pc \in {"returned", "panicked"}

\* C6: on a fresh Program, execute_ex of EqPosition returns normally with
\* output <<1>> if the input is 8 and <<0>> otherwise, and execute_ex of
\* LtPosition returns normally with output <<1>> if the input is below 8 and
\* <<0>> otherwise.  (As claimed; the run ends in a panic.)
C6_EqLtPosition ==
    (FreshRun /\ text \in {EqPosition, LtPosition}) =>
        /\ postHaltSteps = 0
        /\ RunEnded =>
             /\ pc = "returned"
             /\ text = EqPosition => out = <<IF input = 8 THEN 1 ELSE 0>>
             /\ text = LtPosition => out = <<IF input < 8 THEN 1 ELSE 0>>

\* C7: on a fresh Program, execute_ex of EqDirect returns normally with
\* output <<1>> if the input is 8 and <<0>> otherwise, and execute_ex of
\* LtDirect returns normally with output <<1>> if the input is below 8 and
\* <<0>> otherwise: the run never panics, never steps a halted clone, makes
\* at most four calls of step, and has the stated output when it returns.
C7_EqLtDirect ==
    (FreshRun /\ text \in {EqDirect, LtDirect}) =>
        /\ pc # "panicked"
        /\ postHaltSteps = 0
        /\ stepCalls <= 4
        /\ pc = "returned" =>
             /\ text = EqDirect => out = <<IF input = 8 THEN 1 ELSE 0>>
             /\ text = LtDirect => out = <<IF input < 8 THEN 1 ELSE 0>>

\* A fresh run of LtDirect on an input below 8 has returned with <<1>>.
C7_Witness ==
    /\ FreshRun
    /\ text = LtDirect
    /\ pc = "returned"
    /\ input = 7
    /\ out = <<1>>

\* C8: on a fresh Program, execute_ex of JumpPosition and of JumpDirect
\* returns normally with output <<0>> if the input is 0 and <<1>> otherwise.
\* (As claimed; the run ends in a panic or steps the halted clone for ever.)
C8_Jumps ==
    (FreshRun /\ text \in {JumpPosition, JumpDirect}) =>
        /\ postHaltSteps = 0
        /\ RunEnded =>
             /\ pc = "returned"
             /\ out = <<IF input = 0 THEN 0 ELSE 1>>

\* C9: on a fresh Program, execute_ex of Echo with an input closure that
\* returns v returns normally, calls the closure exactly once and passes
\* exactly <<v>> to output_fn: the run never panics, never steps a halted
\* clone and makes at most three calls of step.
C9_Echo ==
    (FreshRun /\ text = Echo) =>
        /\ pc # "panicked"
        /\ postHaltSteps = 0
        /\ stepCalls <= 3
        /\ inCalls <= 1
        /\ pc = "returned" => (inCalls = 1 /\ out = <<input>>)

\* A fresh run of Echo has returned after echoing an input that differs
\* from every cell of the text.
C9_Witness ==
    /\ FreshRun
    /\ text = Echo
    /\ pc = "returned"
    /\ input = 7
    /\ out = <<7>>
    /\ inCalls = 1

\* C10: on a fresh Program, execute_ex of Quine, with any input, returns
\* normally and passes to output_fn the 16 integers of the text, in order:
\* the run never panics, never steps a halted clone, and every output so far
\* is a prefix of the text.
C10_Quine ==
    (FreshRun /\ text = Quine) =>
        /\ pc # "panicked"
        /\ postHaltSteps = 0
        /\ stepCalls <= 6 * Len(Quine)
        /\ Len(out) <= Len(Quine)
        /\ \A i \in 1..Len(out) : out[i] = Quine[i]
        /\ pc = "returned" => out = Quine

\* A fresh run of Quine has returned with 16 outputs, a relative base of 16
\* and a memory grown past the text.
C10_Witness ==
    /\ FreshRun
    /\ text = Quine
    /\ pc = "returned"
    /\ Len(out) = 16
    /\ prg[1].mem_offset = 16
    /\ Len(prg[1].mem) > Len(Quine)
    /\ prg[1].halted

\* ------------------------------------------- the latest call of step
\* The cell at the instruction pointer when step was called, if there is one.
LastFetched ==
    /\ lastStep.on # "none"
    /\ InBounds(lastStep.before.instruction_index, lastStep.before.mem)

LastCell == lastStep.before.mem[lastStep.before.instruction_index + 1]

\* The opcode and the mode digits as the decimal digits of the raw cell.
LowTwoDigits(cell) == (IF cell < 0 THEN -cell ELSE cell) % 100

ModeDigit(cell, slot) == ((IF cell < 0 THEN -cell ELSE cell)
                             \div Pow10(slot + 2)) % 10

KnownOpcodes == (1..9) \cup {99}

\* The instruction the latest call decoded, and whether the call went on to
\* execute it (the Program was not halted and the decode succeeded).
LastInstr ==
    InstructionNew(lastStep.before.mem, lastStep.before.instruction_index)

LastExecuted ==
    /\ lastStep.on # "none"
    /\ ~lastStep.halted_before
    /\ LastInstr.panic = "none"

\* The effective address of a POSITION or RELATIVE parameter of Program p.
EffAddr(p, param, mode) ==
    IF mode = "POSITION" THEN param ELSE param + p.mem_offset

\* C13: one call of step calls input_fn at most once and only when it
\* executes opcode 3, calls output_fn at most once and only when it executes
\* opcode 4, and calls neither when it rejects a halted Program.
C13_CallbacksOnlyForInOut ==
    lastStep.on # "none" =>
        /\ lastStep.in_calls <= 1
        /\ Len(lastStep.outs) <= 1
        /\ lastStep.in_calls = 1 =>
             (LastFetched /\ ~lastStep.halted_before
                 /\ Rem(LastCell, 100) = OPCODE_IN)
        /\ lastStep.outs # <<>> =>
             (LastFetched /\ ~lastStep.halted_before
                 /\ Rem(LastCell, 100) = OPCODE_OUT)
        /\ lastStep.halted_before =>
             (lastStep.in_calls = 0 /\ lastStep.outs = <<>>)

\* A step has executed opcode 3 and called input_fn once and output_fn not
\* at all.
C13_Witness ==
    /\ LastExecuted
    /\ LastInstr.op = "IN"
    /\ lastStep.result = "Ok"
    /\ lastStep.in_calls = 1
    /\ lastStep.outs = <<>>

\* The Programs of the current state: self and, if there is one, the clone.
LivePrograms == {prog} \cup {prg[i] : i \in 1..Len(prg)}

\* The values written in the checks of write.
WrittenValues == PokeValues \cup {-1, 0}

\* C14: in every reachable state a POSITION or RELATIVE read whose effective
\* address is at or beyond the length of the memory yields 0, and a step that
\* outputs such an operand passes 0 to output_fn and leaves the length and
\* the contents of the memory as they were.
C14_ReadBeyondIsZero ==
    /\ \A p \in LivePrograms :
         \A mode \in {"POSITION", "RELATIVE"} :
           \A addr \in Len(p.mem)..(Len(p.mem) + MaxBeyond) :
             LET param == IF mode = "POSITION" THEN addr
                          ELSE addr - p.mem_offset
             IN  read(p.mem, param, mode, p.mem_offset) = 0
    /\ (/\ LastExecuted
        /\ LastInstr.op = "OUT"
        /\ LastInstr.param_modes[1] # "DIRECT"
        /\ EffAddr(lastStep.before, LastInstr.params[1],
                   LastInstr.param_modes[1]) >= Len(lastStep.before.mem))
       => /\ lastStep.outs = <<0>>
          /\ lastStep.after.mem = lastStep.before.mem

\* A step has output, as 0, a RELATIVE operand beyond the memory, whose last
\* cell is not 0.
C14_Witness ==
    /\ LastExecuted
    /\ LastInstr.op = "OUT"
    /\ LastInstr.param_modes[1] = "RELATIVE"
    /\ lastStep.before.mem_offset > 0
    /\ EffAddr(lastStep.before, LastInstr.params[1], "RELATIVE")
          > Len(lastStep.before.mem)
    /\ lastStep.before.mem[Len(lastStep.before.mem)] # 0
    /\ lastStep.outs = <<0>>

\* What C15 says of the memory after of a write of value at address a into
\* the memory before.
GrownAsClaimed(before, after, a, checked, value) ==
    LET L == Len(before)
    IN  /\ a >= L =>
             /\ Len(after) = a + 1
             /\ \A i \in 1..L : after[i] = before[i]
             /\ \A i \in (L + 1)..a : after[i] = 0
        /\ a < L =>
             /\ Len(after) = L
             /\ \A i \in 1..L : i # a + 1 => after[i] = before[i]
        /\ checked => read(after, a, "POSITION", 0) = value

\* C15: a write of v at an address a at or beyond the length L makes the
\* length a + 1, keeps every cell below L, makes every cell in [L, a) 0, and
\* a read of a then returns v; a write below L changes that cell only.  This
\* holds of write on the memory of every reachable state, in both modes, and
\* of the memory after every step that stored a result.
C15_MemoryGrowth ==
    /\ \A p \in LivePrograms :
         \A mode \in {"POSITION", "RELATIVE"} :
           \A a \in 0..(Len(p.mem) + MaxBeyond) :
             \A v \in WrittenValues :
               LET param == IF mode = "POSITION" THEN a ELSE a - p.mem_offset
                   w == write(p.mem, v, param, mode, p.mem_offset)
               IN  /\ w.panic = "none"
                   /\ GrownAsClaimed(p.mem, w.mem, a, TRUE, v)
    /\ (/\ LastExecuted
        /\ LastInstr.op \in {"ADD", "MUL", "LT", "EQ", "IN"}
        /\ lastStep.result = "Ok")
       => LET n == Len(LastInstr.params)
          IN  GrownAsClaimed(lastStep.before.mem, lastStep.after.mem,
                             EffAddr(lastStep.before, LastInstr.params[n],
                                     LastInstr.param_modes[n]),
                             FALSE, 0)

\* A step has stored a value other than 0 beyond the memory, leaving at
\* least one cell between the old length and the address.
C15_Witness ==
    /\ LastExecuted
    /\ lastStep.result = "Ok"
    /\ Len(lastStep.after.mem) >= Len(lastStep.before.mem) + 2
    /\ lastStep.after.mem[Len(lastStep.after.mem)] # 0
    /\ lastStep.after.mem[Len(lastStep.after.mem) - 1] = 0

\* C16: the halted flag is monotone.  No step, poke or execute_ex on a
\* halted Program resets its flag, the clone of a halted Program is halted,
\* and no step of execute_ex resets the flag of its clone.
C16_HaltedMonotone ==
    [][/\ prog.halted => prog'.halted
       /\ (Len(prg) = 1 /\ Len(prg') = 1 /\ pc = "running" /\ prg[1].halted)
            => prg'[1].halted
       /\ (prog.halted /\ pc # "running" /\ pc' = "running")
            => prg'[1].halted]_vars

\* A Program that was halted has since been stepped, poked and run to
\* completion, and is halted.
C16_Witness ==
    /\ prog.halted
    /\ lastStep.on = "self"
    /\ lastStep.halted_before
    /\ pokes >= 1
    /\ Len(runs) >= 1
    /\ callee.halted
    /\ pc = "returned"

\* C17: a raw cell with a mode digit from 3 to 9 in the slot of one of the
\* parameters of its instruction is a fatal decode error: the step fails and
\* executes nothing.  (As claimed; get_param_mode takes every digit other
\* than 1 and 2 for POSITION.)
HasBadModeDigit(cell) ==
    /\ LowTwoDigits(cell) \in KnownOpcodes
    /\ \E slot \in 0..(ParamCount(OperationOf(LowTwoDigits(cell))) - 1) :
         ModeDigit(cell, slot) \notin {0, 1, 2}

C17_BadModeDigitFails ==
    (LastFetched /\ ~lastStep.halted_before /\ HasBadModeDigit(LastCell)) =>
        /\ lastStep.result = "panic"
        /\ lastStep.after = lastStep.before

\* C18: when the two low decimal digits of the cell at the instruction
\* pointer are none of 1..9 and 99, step ends with the unknown-opcode error,
\* which is neither Ok nor Err(ProgramHalt) and leaves the Program as it
\* was, and execute_ex ends with that error instead of going on or
\* returning.  (The error is the panic "Unknown opcode".)
C18_UnknownOpcodeSurfaces ==
    (LastFetched /\ LowTwoDigits(LastCell) \notin KnownOpcodes) =>
        /\ lastStep.result = "panic"
        /\ lastStep.panic = "unknown_opcode"
        /\ lastStep.after = lastStep.before
        /\ pc = "panicked"

\* A step of the clone of execute_ex, not halted, has met a cell that is no
\* opcode, and the run has ended with the error.
C18_Witness ==
    /\ LastFetched
    /\ lastStep.on = "clone"
    /\ ~lastStep.halted_before
    /\ LowTwoDigits(LastCell) = 98
    /\ lastStep.panic = "unknown_opcode"
    /\ pc = "panicked"

\* C19: after a step has failed with an unknown-opcode or
\* invalid-write-target error the Program is halted.  (As claimed; the code
\* panics and leaves the halted flag as it was.)
C19_ErrorSetsHalted ==
    (lastStep.result = "panic"
        /\ lastStep.panic \in {"unknown_opcode", "write_in_direct_mode"})
    => lastStep.after.halted

\* The destination parameter of the cell, for the opcodes that store.
DestModeDigit(cell) ==
    ModeDigit(cell, ParamCount(OperationOf(LowTwoDigits(cell))) - 1)

\* C20: a step that executes opcode 1, 2, 7, 8 or 3 with the destination
\* parameter in immediate mode fails with the invalid-write-target error and
\* stores nothing: the memory has the length and the contents it had.
C20_DirectDestinationFails ==
    (/\ LastExecuted
     /\ LastCell > 0
     /\ LowTwoDigits(LastCell) \in {1, 2, 7, 8, 3}
     /\ DestModeDigit(LastCell) = 1)
    => /\ lastStep.result = "panic"
       /\ lastStep.panic = "write_in_direct_mode"
       /\ lastStep.after.mem = lastStep.before.mem

\* A step has executed an input with an immediate destination: it called
\* input_fn and failed.
C20_Witness ==
    /\ LastExecuted
    /\ LastInstr.op = "IN"
    /\ DestModeDigit(LastCell) = 1
    /\ lastStep.in_calls = 1
    /\ lastStep.result = "panic"
    /\ lastStep.panic = "write_in_direct_mode"

\* ------------------------------------------------------- 64-bit values
\* The programs above keep every cell within 32 bits.  The part below runs
\* the same machine on cells of the full width of i64: a value is the
\* sequence of the bytes of its two's complement, least significant first.
I64Bytes == 8

\* The bytes of the natural number n, k of them.
RECURSIVE NatBytes(_, _)
NatBytes(n, k) ==
    IF k = 0 THEN <<>> ELSE <<n % 256>> \o NatBytes(n \div 256, k - 1)

\* The bytes of a sequence of column sums, the carry out of the last
\* column dropped.
RECURSIVE Carry(_, _)
Carry(cols, c) ==
    IF cols = <<>> THEN <<>>
    ELSE LET s == Head(cols) + c
         IN  <<s % 256>> \o Carry(Tail(cols), s \div 256)

\* The sum of the products a[i] * b[k + 1 - i] for i = 1..n: column k of
\* the long multiplication of a and b.
RECURSIVE Column(_, _, _, _)
Column(a, b, k, n) ==
    IF n = 0 THEN 0
    ELSE (IF k + 1 - n \in 1..Len(b) THEN a[n] * b[k + 1 - n] ELSE 0)
         + Column(a, b, k, n - 1)

IsNeg64(w) == w[I64Bytes] >= 128

\* i64::wrapping_add, wrapping_neg and wrapping_mul.
Add64(a, b) == Carry([i \in 1..I64Bytes |-> a[i] + b[i]], 0)

Neg64(w) ==
    Carry([i \in 1..I64Bytes |-> (255 - w[i]) + (IF i = 1 THEN 1 ELSE 0)], 0)

Mul64(a, b) ==
    Carry([k \in 1..I64Bytes |-> Column(a, b, k, k)], 0)

\* The i64 of an integer literal of the source.
I64(n) == IF n >= 0 THEN NatBytes(n, I64Bytes)
          ELSE Neg64(NatBytes(-n, I64Bytes))

\* The magnitude of w as a u64 (2^63 for i64::MIN).
Abs64(w) == IF IsNeg64(w) THEN Neg64(w) ELSE w

\* v1 + v2 leaves the range of i64.
AddOverflows(a, b) ==
    IsNeg64(a) = IsNeg64(b) /\ IsNeg64(Add64(a, b)) # IsNeg64(a)

\* v1 * v2 leaves the range of i64: the product of the magnitudes, all 16
\* bytes of it, exceeds 2^63 - 1, or 2^63 when the product is negative.
MulOverflows(a, b) ==
    LET x == Abs64(a)
        y == Abs64(b)
        full == Carry([k \in 1..(2 * I64Bytes) |->
                          Column(x, y, k, IF k < I64Bytes THEN k
                                          ELSE I64Bytes)], 0)
        high == \E i \in (I64Bytes + 1)..(2 * I64Bytes) : full[i] # 0
        negative == IsNeg64(a) # IsNeg64(b)
        is_min == /\ full[I64Bytes] = 128
                  /\ \A i \in 1..(I64Bytes - 1) : full[i] = 0
    IN  \/ high
        \/ full[I64Bytes] >= 128 /\ ~(negative /\ is_min)

\* v1 < v2 on i64: by the signs, then by the bytes from the most
\* significant one down.
RECURSIVE BytesLess(_, _, _)
BytesLess(a, b, i) ==
    IF i = 0 THEN FALSE
    ELSE IF a[i] # b[i] THEN a[i] < b[i]
    ELSE BytesLess(a, b, i - 1)

Less64(a, b) ==
    IF IsNeg64(a) # IsNeg64(b) THEN IsNeg64(a)
    ELSE BytesLess(a, b, I64Bytes)

\* The remainder of the u64 mag by the small divisor d, by long division
\* from byte i down.
RECURSIVE RemMag(_, _, _, _)
RemMag(mag, d, i, r) ==
    IF i = 0 THEN r ELSE RemMag(mag, d, i - 1, (r * 256 + mag[i]) % d)

\* w % d on i64 for a small positive d: the sign of the dividend.
Rem64(w, d) ==
    IF IsNeg64(w) THEN -RemMag(Neg64(w), d, I64Bytes, 0)
    ELSE RemMag(w, d, I64Bytes, 0)

\* (w / 10^exp) % 10 on i64, both truncated toward zero.
Digit64(w, exp) == Quot(Rem64(w, Pow10(exp + 1)), Pow10(exp))

\* `w as usize` taken as the magnitude of w.
AsUsize_magnitude(w) ==
    LET m == Abs64(w)
    IN  IF m[4] < 128 /\ \A i \in 5..I64Bytes : m[i] = 0
        THEN m[1] + 256 * (m[2] + 256 * (m[3] + 256 * m[4]))
        ELSE -1

\* `w as usize` as an index: the value when it is below 2^31, and else -1,
\* which like every usize from 2^31 on lies beyond every length here.
AsUsize(w) ==
    IF w[4] < 128 /\ \A i \in 5..I64Bytes : w[i] = 0
    THEN w[1] + 256 * (w[2] + 256 * (w[3] + 256 * w[4]))
    ELSE -1

\* `s.parse::<i64>()` of a decimal numeral within the range of i64: the
\* digits from the left, each step ten times the value so far and the digit.
RECURSIVE ParseDigits(_, _)
ParseDigits(digits, acc) ==
    IF digits = <<>> THEN acc
    ELSE LET next == Add64(Mul64(acc, I64(10)), I64(Head(digits)))
         IN  IF Len(next) = I64Bytes THEN ParseDigits(Tail(digits), next)
             ELSE next

parse(s) ==
    IF s.neg THEN Neg64(ParseDigits(s.digits, I64(0)))
    ELSE ParseDigits(s.digits, I64(0))

\* The numeral of a small integer, and the numeral with the given digits.
RECURSIVE DigitsOf(_)
DigitsOf(n) == IF n < 10 THEN <<n>> ELSE Append(DigitsOf(n \div 10), n % 10)

Num(n) == IF n < 0 THEN [neg |-> TRUE, digits |-> DigitsOf(-n)]
          ELSE [neg |-> FALSE, digits |-> DigitsOf(n)]

Numeral(digits) == [neg |-> FALSE, digits |-> digits]

NegNumeral(digits) == [neg |-> TRUE, digits |-> digits]

\* --------------------------------------------- the machine on i64 cells
\* get_param_mode on an i64 cell.
get_param_mode64(buf, index, slot) ==
    LET digit == Digit64(buf[index + 1], slot + 2)
    IN  IF digit = 1 THEN "DIRECT"
        ELSE IF digit = 2 THEN "RELATIVE"
        ELSE "POSITION"

\* Instruction::new on a memory of i64 cells.
InstructionNew64(buf, index) ==
    IF ~InBounds(index, buf) THEN NoInstruction("index_out_of_bounds")
    ELSE LET raw_op == Rem64(buf[index + 1], 100)
             op == OperationOf(raw_op)
             param_count == ParamCount(op)
         IN  IF op = "UNKNOWN" THEN NoInstruction("unknown_opcode")
             ELSE IF param_count > 0 /\ ~InBounds(index + param_count, buf)
                  THEN NoInstruction("index_out_of_bounds")
             ELSE [panic |-> "none",
                   op |-> op,
                   params |-> [i \in 1..param_count |-> buf[index + i + 1]],
                   param_modes |-> [i \in 1..param_count |->
                                       get_param_mode64(buf, index, i - 1)]]

\* param + base of read and write.  The sum may leave the range of i64: a
\* build with overflow checks panics there, a build without them wraps.
RelativeAddr(param, base, checks) ==
    IF checks /\ AddOverflows(param, base)
    THEN [addr |-> -1, panic |-> "arithmetic_overflow"]
    ELSE [addr |-> AsUsize(Add64(param, base)), panic |-> "none"]

\* read that converts a DIRECT parameter through 32 bits (`as i32 as i64`).
read64_as_i32(mem, param, param_mode, base, checks) ==
    IF param_mode = "DIRECT"
    THEN [value |-> [i \in 1..I64Bytes |->
                        IF i <= 4 THEN param[i]
                        ELSE IF param[4] >= 128 THEN 255 ELSE 0],
          panic |-> "none"]
    ELSE LET a == IF param_mode = "POSITION"
                  THEN [addr |-> AsUsize(param), panic |-> "none"]
                  ELSE RelativeAddr(param, base, checks)
         IN  IF a.panic # "none" THEN [value |-> I64(0), panic |-> a.panic]
             ELSE IF ~InBounds(a.addr, mem)
                  THEN [value |-> I64(0), panic |-> "none"]
             ELSE [value |-> mem[a.addr + 1], panic |-> "none"]

\* read(mem, param, param_mode, base) on i64 cells: the value, or the panic
\* of the addition.
read64(mem, param, param_mode, base, checks) ==
    IF param_mode = "DIRECT" THEN [value |-> param, panic |-> "none"]
    ELSE LET a == IF param_mode = "POSITION"
                  THEN [addr |-> AsUsize(param), panic |-> "none"]
                  ELSE RelativeAddr(param, base, checks)
         IN  IF a.panic # "none" THEN [value |-> I64(0), panic |-> a.panic]
             ELSE IF ~InBounds(a.addr, mem)
                  THEN [value |-> I64(0), panic |-> "none"]
             ELSE [value |-> mem[a.addr + 1], panic |-> "none"]

\* write(mem, value, position, param_mode, base) on i64 cells.  For the
\* address usize::MAX, addr + 1 overflows: with overflow checks it panics,
\* without them it wraps to 0, resize empties the memory and the indexing
\* panics.  No other address from 2^31 on can be allocated.
write64(mem, value, position, param_mode, base, checks) ==
    IF param_mode = "DIRECT"
    THEN [mem |-> mem, panic |-> "write_in_direct_mode"]
    ELSE LET target == IF param_mode = "POSITION" THEN position
                       ELSE Add64(position, base)
             a == IF param_mode = "POSITION"
                  THEN [addr |-> AsUsize(position), panic |-> "none"]
                  ELSE RelativeAddr(position, base, checks)
         IN  IF a.panic # "none" THEN [mem |-> mem, panic |-> a.panic]
             ELSE IF target = I64(-1)
                  THEN IF checks
                       THEN [mem |-> mem, panic |-> "arithmetic_overflow"]
                       ELSE [mem |-> <<>>, panic |-> "index_out_of_bounds"]
             ELSE IF a.addr < 0
                  THEN [mem |-> mem, panic |-> "capacity_overflow"]
             ELSE LET grown == IF a.addr >= Len(mem)
                               THEN mem \o [i \in 1..(a.addr + 1 - Len(mem))
                                               |-> I64(0)]
                               ELSE mem
                  IN  [mem |-> [grown EXCEPT ![a.addr + 1] = value],
                       panic |-> "none"]

\* Program::from_str on the text whose numerals are s.
from_str64(strs) ==
    [name |-> "",
     mem |-> [i \in 1..Len(strs) |-> parse(strs[i])],
     mem_offset |-> I64(0),
     instruction_index |-> 0,
     output |-> <<>>,
     halted |-> FALSE]

\* The closures passed to binary_op, on i64: + and * panic on overflow in a
\* build with overflow checks and wrap in a build without them.
OpFn64(op, v1, v2, checks) ==
    CASE op = "ADD" -> IF checks /\ AddOverflows(v1, v2)
                       THEN [value |-> I64(0), panic |-> "arithmetic_overflow"]
                       ELSE [value |-> Add64(v1, v2), panic |-> "none"]
      [] op = "MUL" -> IF checks /\ MulOverflows(v1, v2)
                       THEN [value |-> I64(0), panic |-> "arithmetic_overflow"]
                       ELSE [value |-> Mul64(v1, v2), panic |-> "none"]
      [] op = "LT"  -> [value |-> IF Less64(v1, v2) THEN I64(1) ELSE I64(0),
                        panic |-> "none"]
      [] op = "EQ"  -> [value |-> IF v1 = v2 THEN I64(1) ELSE I64(0),
                        panic |-> "none"]

\* The closure binary_op of step on i64 cells.
binary_op64(p, instruction, checks) ==
    LET val1 == read64(p.mem, instruction.params[1],
                       instruction.param_modes[1], p.mem_offset, checks)
        val2 == read64(p.mem, instruction.params[2],
                       instruction.param_modes[2], p.mem_offset, checks)
        res == OpFn64(instruction.op, val1.value, val2.value, checks)
        w == write64(p.mem, res.value, instruction.params[3],
                     instruction.param_modes[3], p.mem_offset, checks)
    IN  IF val1.panic # "none"
        THEN StepOutcome(p, "panic", val1.panic, 0, <<>>)
        ELSE IF val2.panic # "none"
        THEN StepOutcome(p, "panic", val2.panic, 0, <<>>)
        ELSE IF res.panic # "none"
        THEN StepOutcome(p, "panic", res.panic, 0, <<>>)
        ELSE IF w.panic # "none"
        THEN StepOutcome([p EXCEPT !.mem = w.mem], "panic", w.panic, 0, <<>>)
        ELSE StepOutcome([p EXCEPT !.mem = w.mem,
                                   !.instruction_index = @ + 3],
                         "Ok", "none", 0, <<>>)

\* The JIT and JIF arms of step on i64 cells.
jump_op64(p, instruction, checks) ==
    LET val == read64(p.mem, instruction.params[1],
                      instruction.param_modes[1], p.mem_offset, checks)
        dst == read64(p.mem, instruction.params[2],
                      instruction.param_modes[2], p.mem_offset, checks)
        taken == IF instruction.op = "JIT" THEN val.value # I64(0)
                 ELSE val.value = I64(0)
    IN  IF val.panic # "none"
        THEN StepOutcome(p, "panic", val.panic, 0, <<>>)
        ELSE IF dst.panic # "none"
        THEN StepOutcome(p, "panic", dst.panic, 0, <<>>)
        ELSE StepOutcome([p EXCEPT !.instruction_index =
                                      IF taken THEN AsUsize(dst.value)
                                      ELSE @ + 2],
                         "Ok", "none", 0, <<>>)

\* Program::step on i64 cells, where input_fn returns in_val and checks
\* tells whether the build has overflow checks.
step64(self, in_val, checks) ==
    LET instruction == InstructionNew64(self.mem, self.instruction_index)
    IN  IF instruction.panic # "none"
        THEN StepOutcome(self, "panic", instruction.panic, 0, <<>>)
        ELSE IF self.halted
        THEN StepOutcome(self, "ProgramHalt", "none", 0, <<>>)
        ELSE
        LET p == [self EXCEPT !.instruction_index = @ + 1, !.output = <<>>]
        IN  CASE instruction.op \in {"ADD", "MUL", "LT", "EQ"} ->
                   binary_op64(p, instruction, checks)
              [] instruction.op = "IN" ->
                   LET w == write64(p.mem, in_val, instruction.params[1],
                                    instruction.param_modes[1], p.mem_offset,
                                    checks)
                   IN  IF w.panic # "none"
                       THEN StepOutcome([p EXCEPT !.mem = w.mem],
                                        "panic", w.panic, 1, <<>>)
                       ELSE StepOutcome([p EXCEPT !.mem = w.mem,
                                                  !.instruction_index = @ + 1],
                                        "Ok", "none", 1, <<>>)
              [] instruction.op = "OUT" ->
                   LET val == read64(p.mem, instruction.params[1],
                                     instruction.param_modes[1], p.mem_offset,
                                     checks)
                   IN  IF val.panic # "none"
                       THEN StepOutcome(p, "panic", val.panic, 0, <<>>)
                       ELSE StepOutcome([p EXCEPT !.output = <<val.value>>,
                                                  !.instruction_index = @ + 1],
                                        "Ok", "none", 0, <<val.value>>)
              [] instruction.op \in {"JIT", "JIF"} ->
                   jump_op64(p, instruction, checks)
              [] instruction.op = "BASE" ->
                   LET val == read64(p.mem, instruction.params[1],
                                     instruction.param_modes[1], p.mem_offset,
                                     checks)
                   IN  IF val.panic # "none"
                       THEN StepOutcome(p, "panic", val.panic, 0, <<>>)
                       ELSE IF checks /\ AddOverflows(p.mem_offset, val.value)
                       THEN StepOutcome(p, "panic", "arithmetic_overflow",
                                        0, <<>>)
                       ELSE StepOutcome(
                                [p EXCEPT !.mem_offset = Add64(@, val.value),
                                          !.instruction_index = @ + 1],
                                "Ok", "none", 0, <<>>)
              [] instruction.op = "HALT" ->
                   StepOutcome([p EXCEPT !.halted = TRUE],
                               "ProgramHalt", "none", 0, <<>>)

\* ------------------------------------------------- texts with wide values
\* 2^50, i64::MAX, i64::MIN, 2^32 and 2^31 as numerals
TwoPow50 == Numeral(<<1, 1, 2, 5, 8, 9, 9, 9, 0, 6, 8, 4, 2, 6, 2, 4>>)
I64Max == Numeral(<<9, 2, 2, 3, 3, 7, 2, 0, 3, 6, 8, 5, 4, 7, 7, 5, 8, 0, 7>>)
I64Min == NegNumeral(<<9, 2, 2, 3, 3, 7, 2, 0, 3, 6, 8, 5, 4, 7, 7, 5, 8, 0, 8>>)
TwoPow32 == Numeral(<<4, 2, 9, 4, 9, 6, 7, 2, 9, 6>>)
TwoPow31 == Numeral(<<2, 1, 4, 7, 4, 8, 3, 6, 4, 8>>)

\* "1102,34915192,34915192,7,4,7,99,0" (tests::large_mul)
LargeMul == <<Num(1102), Num(34915192), Num(34915192), Num(7), Num(4),
              Num(7), Num(99), Num(0)>>

\* "104,n,99"; with n = 1125899906842624 it is the text of tests::large_num
OutDirect(n) == <<Num(104), n, Num(99)>>

LargeNum == OutDirect(TwoPow50)

DirectNumerals == {TwoPow50, I64Max, I64Min, TwoPow32, TwoPow31,
                   NegNumeral(TwoPow50.digits), NegNumeral(TwoPow31.digits),
                   Num(-1), Num(0), Num(99), Num(34915192)}

OutDirectTexts == {OutDirect(n) : n \in DirectNumerals}

\* sums and products that leave the range of i64, a comparison of the
\* extremes, a relative base and a jump target beyond 2^32, and a store to
\* the address -1
AddOverflow == <<Num(1101), I64Max, Num(1), Num(5), Num(4), Num(5), Num(99)>>
MulOverflow == <<Num(1102), I64Min, Num(-1), Num(5), Num(4), Num(5), Num(99)>>
LessExtremes == <<Num(1107), I64Min, I64Max, Num(5), Num(4), Num(5), Num(99)>>
BaseWide == <<Num(109), TwoPow50, Num(204),
              NegNumeral(<<1, 1, 2, 5, 8, 9, 9, 9, 0, 6, 8, 4, 2, 6, 2, 3>>),
              Num(99)>>
BaseOverflow == <<Num(109), I64Max, Num(109), Num(1), Num(99)>>
JumpWide == <<Num(1105), Num(1), TwoPow50, Num(99)>>
StoreMinusOne == <<Num(3), Num(-1), Num(99)>>
StoreWide == <<Num(3), TwoPow32, Num(99)>>
Echo64 == <<Num(3), Num(0), Num(4), Num(0), Num(99)>>

WideTexts == {LargeMul, AddOverflow, MulOverflow, LessExtremes, BaseWide,
              BaseOverflow, JumpWide, StoreMinusOne, StoreWide, Echo64}
             \cup OutDirectTexts

\* The values the input closures return here.
WideInputValues == {parse(Num(0)), parse(Num(-1)), parse(TwoPow50)}

\* ------------------------------------------- the clients of the i64 machine
NoStep64 == [on |-> "none", halted_before |-> FALSE, result |-> "none",
             panic |-> "none", before |-> from_str64(<<>>),
             after |-> from_str64(<<>>), in_calls |-> 0, outs |-> <<>>]

InitWide ==
    /\ text \in WideTexts
    /\ prog = from_str64(text)
    /\ prg = <<>>
    /\ pc = "idle"
    /\ input = I64(0)
    /\ out = <<>>
    /\ inCalls = 0
    /\ stepCalls = 0
    /\ postHaltSteps = 0
    /\ directSteps = 0
    /\ callee = from_str64(text)
    /\ runs = <<>>
    /\ lastStep = NoStep64
    /\ pokes = 0
    /\ NoClients

\* The client calls prog.step with an input closure returning v, in a build
\* with or without overflow checks.
StepCall64(v, checks) ==
    /\ pc \in {"idle", "returned"}
    /\ directSteps < MaxDirectSteps
    /\ LET r == step64(prog, v, checks)
       IN  /\ prog' = r.prg
           /\ pc' = IF r.result = "panic" THEN "panicked" ELSE "idle"
           /\ lastStep' = StepRecord("self", prog, r)
    /\ directSteps' = directSteps + 1
    /\ prg' = <<>>
    /\ UNCHANGED <<text, input, out, inCalls, stepCalls, postHaltSteps,
                   callee, runs, pokes>>
    /\ UNCHANGED clientVars

\* One iteration of the while loop of execute_ex on i64 cells.
ExecuteExIter64(checks) ==
    /\ pc = "running"
    /\ LoopCondition
    /\ prg[1].halted => postHaltSteps < MaxPostHaltSteps
    /\ LET r == step64(prg[1], input, checks)
       IN  /\ prg' = <<r.prg>>
           /\ out' = out \o r.outs
           /\ inCalls' = inCalls + r.in_calls
           /\ pc' = IF r.result = "panic" THEN "panicked" ELSE "running"
           /\ lastStep' = StepRecord("clone", prg[1], r)
    /\ stepCalls' = stepCalls + 1
    /\ postHaltSteps' = IF prg[1].halted THEN postHaltSteps + 1
                        ELSE postHaltSteps
    /\ UNCHANGED <<text, prog, input, directSteps, callee, runs, pokes>>
    /\ UNCHANGED clientVars

NextWide ==
    \/ \E v \in WideInputValues, checks \in BOOLEAN : StepCall64(v, checks)
    \/ \E v \in WideInputValues : ExecuteExCall(v)
    \/ \E checks \in BOOLEAN : ExecuteExIter64(checks)
    \/ ExecuteExReturn

SpecWide == InitWide /\ [][NextWide]_vars

\* The current call of execute_ex was made on a freshly constructed Program
\* of i64 cells.
FreshRun64 == Len(prg) = 1 /\ callee = from_str64(text)

\* C11: execute_ex of "1102,34915192,34915192,7,4,7,99,0" on a fresh Program
\* returns normally and has passed to output_fn exactly 1219070632396864,
\* the product of 34915192 by itself in 64 bits.  (As claimed; in the code
\* the loop steps the halted clone again, and the step decodes cell 7, the
\* product, whose two low digits 64 are no opcode.)
C11_LargeMul ==
    (text = LargeMul /\ FreshRun64 /\ RunEnded) =>
        /\ pc = "returned"
        /\ out = <<parse(Numeral(<<1, 2, 1, 9, 0, 7, 0, 6, 3, 2, 3, 9, 6, 8,
                                   6, 4>>))>>

\* The instruction the latest call of step decoded from i64 cells.
LastInstr64 ==
    InstructionNew64(lastStep.before.mem, lastStep.before.instruction_index)

\* C12: read in immediate mode returns the parameter as it is, whatever
\* i64 it is: a step that executes an output with an immediate parameter
\* passes to output_fn the cell after the opcode; and execute_ex of
\* "104,n,99" on a fresh Program returns normally and has passed to
\* output_fn exactly n, which for n = 1125899906842624 is 2^50, byte 6 of
\* the eight being 4.
C12_DirectReadLiteral ==
    /\ \A p \in LivePrograms, checks \in BOOLEAN, i \in 1..Len(prog.mem) :
          read64(p.mem, prog.mem[i], "DIRECT", p.mem_offset, checks)
              = [value |-> prog.mem[i], panic |-> "none"]
    /\ (/\ lastStep.on # "none"
        /\ ~lastStep.halted_before
        /\ LastInstr64.panic = "none"
        /\ LastInstr64.op = "OUT"
        /\ LastInstr64.param_modes[1] = "DIRECT")
       => /\ lastStep.result = "Ok"
          /\ lastStep.outs =
               <<lastStep.before.mem[lastStep.before.instruction_index + 2]>>
    /\ (text \in OutDirectTexts /\ FreshRun64 /\ RunEnded)
       => /\ pc = "returned"
          /\ out = <<parse(text[2])>>
    /\ (text = LargeNum /\ FreshRun64 /\ RunEnded)
       => out = << <<0, 0, 0, 0, 0, 0, 4, 0>> >>

\* The run of "104,1125899906842624,99" has returned with 2^50 as its
\* output.
C12_Witness ==
    /\ text = LargeNum
    /\ FreshRun64
    /\ pc = "returned"
    /\ lastStep.on = "clone"
    /\ out = << <<0, 0, 0, 0, 0, 0, 4, 0>> >>

\* ---------------------------------------------------- a client that clones
\* A client that constructs a Program, clones it once at some point, and
\* steps and pokes the original and the clone in any order.  The clone is the
\* derived Clone of the struct: a Program of its own with a copy of the
\* vector.  runs is the log of the calls made since the clone.
MaxCloneOps == 4

CloneTexts == {Echo, HaltOnly, WriteBeyond, ReadBeyondRel, DirectDestIn,
               UnknownOpZero, EqDirect}

ClonePokeValues == {99}

\* The entry of the log for a call of step or poke.
OpRecord(on, op, args, result, outs) ==
    [on |-> on, op |-> op, args |-> args, result |-> result, outs |-> outs]

InitClone ==
    /\ text \in CloneTexts
    /\ prog = from_str(text)
    /\ prg = <<>>
    /\ pc = "idle"
    /\ input = 0
    /\ out = <<>>
    /\ inCalls = 0
    /\ stepCalls = 0
    /\ postHaltSteps = 0
    /\ directSteps = 0
    /\ callee = from_str(text)
    /\ runs = <<>>
    /\ lastStep = NoStep
    /\ pokes = 0
    /\ NoClients

\* `let mut prg = prg.clone();`
CloneCall ==
    /\ pc = "idle"
    /\ prg = <<>>
    /\ prg' = <<prog>>
    /\ callee' = prog
    /\ runs' = <<>>
    /\ UNCHANGED <<text, prog, pc, input, out, inCalls, stepCalls,
                   postHaltSteps, directSteps, lastStep, pokes>>
    /\ UNCHANGED clientVars

\* A step of the original that writes its memory through to the clone.
StepOriginal_shared_mem(v) ==
    /\ pc = "idle"
    /\ directSteps < MaxCloneOps
    /\ LET r == step(prog, v)
       IN  /\ prog' = r.prg
           /\ prg' = IF prg = <<>> THEN prg
                     ELSE <<[prg[1] EXCEPT !.mem = r.prg.mem]>>
           /\ pc' = IF r.result = "panic" THEN "panicked" ELSE "idle"
           /\ lastStep' = StepRecord("self", prog, r)
           /\ runs' = Append(runs, OpRecord("self", "step", <<v>>, r.result,
                                            r.outs))
    /\ directSteps' = directSteps + 1
    /\ UNCHANGED <<text, input, out, inCalls, stepCalls, postHaltSteps,
                   callee, pokes>>
    /\ UNCHANGED clientVars

\* The client calls step on the original.
StepOriginal(v) ==
    /\ pc = "idle"
    /\ directSteps < MaxCloneOps
    /\ LET r == step(prog, v)
       IN  /\ prog' = r.prg
           /\ pc' = IF r.result = "panic" THEN "panicked" ELSE "idle"
           /\ lastStep' = StepRecord("self", prog, r)
           /\ runs' = Append(runs, OpRecord("self", "step", <<v>>, r.result,
                                            r.outs))
    /\ directSteps' = directSteps + 1
    /\ UNCHANGED <<text, prg, input, out, inCalls, stepCalls, postHaltSteps,
                   callee, pokes>>
    /\ UNCHANGED clientVars

\* The client calls step on the clone.
StepClone(v) ==
    /\ pc = "idle"
    /\ Len(prg) = 1
    /\ directSteps < MaxCloneOps
    /\ LET r == step(prg[1], v)
       IN  /\ prg' = <<r.prg>>
           /\ pc' = IF r.result = "panic" THEN "panicked" ELSE "idle"
           /\ lastStep' = StepRecord("clone", prg[1], r)
           /\ runs' = Append(runs, OpRecord("clone", "step", <<v>>, r.result,
                                            r.outs))
    /\ directSteps' = directSteps + 1
    /\ UNCHANGED <<text, prog, input, out, inCalls, stepCalls, postHaltSteps,
                   callee, pokes>>
    /\ UNCHANGED clientVars

\* The client calls poke on the original.
PokeOriginal(addr, val) ==
    /\ pc = "idle"
    /\ directSteps < MaxCloneOps
    /\ LET w == write(prog.mem, val, addr, "POSITION", 0)
       IN  /\ prog' = [prog EXCEPT !.mem = w.mem]
           /\ pc' = IF w.panic # "none" THEN "panicked" ELSE "idle"
           /\ runs' = Append(runs, OpRecord("self", "poke", <<addr, val>>,
                                            w.panic, <<>>))
    /\ directSteps' = directSteps + 1
    /\ pokes' = pokes + 1
    /\ UNCHANGED <<text, prg, input, out, inCalls, stepCalls, postHaltSteps,
                   callee, lastStep>>
    /\ UNCHANGED clientVars

\* The client calls poke on the clone.
PokeClone(addr, val) ==
    /\ pc = "idle"
    /\ Len(prg) = 1
    /\ directSteps < MaxCloneOps
    /\ LET w == write(prg[1].mem, val, addr, "POSITION", 0)
       IN  /\ prg' = <<[prg[1] EXCEPT !.mem = w.mem]>>
           /\ pc' = IF w.panic # "none" THEN "panicked" ELSE "idle"
           /\ runs' = Append(runs, OpRecord("clone", "poke", <<addr, val>>,
                                            w.panic, <<>>))
    /\ directSteps' = directSteps + 1
    /\ pokes' = pokes + 1
    /\ UNCHANGED <<text, prog, input, out, inCalls, stepCalls, postHaltSteps,
                   callee, lastStep>>
    /\ UNCHANGED clientVars

NextClone ==
    \/ CloneCall
    \/ \E v \in StepInputValues : StepOriginal(v)
    \/ \E v \in StepInputValues : StepClone(v)
    \/ \E addr \in {0, 6}, val \in ClonePokeValues : PokeOriginal(addr, val)
    \/ \E addr \in {0, 6}, val \in ClonePokeValues : PokeClone(addr, val)

SpecClone == InitClone /\ [][NextClone]_vars

\* The calls the log holds for one of the two Programs, and what the caller
\* asked for in them.
CallsOn(on) == SelectSeq(runs, LAMBDA c : c.on = on)

Asked(calls) == [i \in 1..Len(calls) |-> <<calls[i].op, calls[i].args>>]

Answered(calls) ==
    [i \in 1..Len(calls) |-> <<calls[i].result, calls[i].outs>>]

\* The four observable fields of a Program.
Observable(p) == <<p.mem, p.instruction_index, p.mem_offset, p.halted>>

\* C21: a clone is a Program of its own.  A call of step or poke on one of
\* the two leaves memory, instruction pointer, relative base and halted flag
\* of the other as they were; and when, since the clone, both have been
\* given the same calls with the same inputs, both have given the same
\* results and outputs and are in the same state.
C21_CloneIndependent ==
    [][(Len(prg) = 1 /\ Len(prg') = 1) =>
          /\ (Len(CallsOn("self")') > Len(CallsOn("self")))
                => Observable(prg'[1]) = Observable(prg[1])
          /\ (Len(CallsOn("clone")') > Len(CallsOn("clone")))
                => Observable(prog') = Observable(prog)
          /\ (Asked(CallsOn("self")') = Asked(CallsOn("clone")'))
                => /\ Answered(CallsOn("self")') = Answered(CallsOn("clone")')
                   /\ Observable(prog') = Observable(prg'[1])]_vars

\* Cloned after the original had moved on; then both were given the same
\* call of step, which changed them, and they agree; the original has been
\* poked as well.
C21_Witness ==
    /\ Len(prg) = 1
    /\ callee # from_str(text)
    /\ pokes >= 1
    /\ Len(CallsOn("self")) = 1
    /\ Asked(CallsOn("self")) = Asked(CallsOn("clone"))
    /\ CallsOn("self")[1].op = "step"
    /\ CallsOn("self")[1].result = "Ok"
    /\ prog = prg[1]
    /\ prog # callee

\* C22: poke(a, v) stores v at the absolute address a whatever the relative
\* base is, grows the memory with cells of 0 when a is at or beyond its
\* length, and changes nothing else: the other cells, the instruction
\* pointer, the relative base, the halted flag and the last output stay, and
\* neither closure is called.
C22_PokeFrame ==
    [][\A addr \in {0, Len(prog.mem) + 1}, val \in PokeValues :
          Poke(addr, val) =>
              /\ pc' = "idle"
              /\ GrownAsClaimed(prog.mem, prog'.mem, addr, TRUE, val)
              /\ prog' = [prog EXCEPT !.mem = prog'.mem]
              /\ inCalls' = inCalls
              /\ out' = out
              /\ lastStep' = lastStep]_vars

\* A Program whose relative base is not 0 has been poked beyond its memory:
\* the value is the last cell, and the cell before it is 0.
C22_Witness ==
    /\ pokes = 1
    /\ pc = "idle"
    /\ prog.mem_offset # 0
    /\ Len(prog.mem) = Len(from_str(text).mem) + 2
    /\ prog.mem[Len(prog.mem)] \in PokeValues
    /\ prog.mem[Len(prog.mem) - 1] = 0

\* The latest call of step on i64 cells went on to execute the instruction it
\* decoded.
LastExecuted64 ==
    /\ lastStep.on # "none"
    /\ ~lastStep.halted_before
    /\ LastInstr64.panic = "none"

\* The value of parameter i of that instruction, as read by a build without
\* overflow checks.
LastOperand64(i) ==
    read64(lastStep.before.mem, LastInstr64.params[i],
           LastInstr64.param_modes[i], lastStep.before.mem_offset, FALSE).value

\* C23: add, multiply and the adjustment of the relative base wrap around
\* and check no overflow: whatever the operands, also when their exact sum
\* or product lies outside the range of i64, the step succeeds and stores
\* the result reduced modulo 2^64.  (As claimed; the code uses + and *, which
\* panic on overflow in a build with overflow checks.)
C23_WrappingArithmetic ==
    /\ (/\ LastExecuted64
        /\ LastInstr64.op \in {"ADD", "MUL"}
        /\ LastInstr64.param_modes[3] = "POSITION"
        /\ AsUsize(LastInstr64.params[3]) >= 0)
       => /\ lastStep.result = "Ok"
          /\ lastStep.after.mem[AsUsize(LastInstr64.params[3]) + 1]
               = IF LastInstr64.op = "ADD"
                 THEN Add64(LastOperand64(1), LastOperand64(2))
                 ELSE Mul64(LastOperand64(1), LastOperand64(2))
    /\ (LastExecuted64 /\ LastInstr64.op = "BASE")
       => /\ lastStep.result = "Ok"
          /\ lastStep.after.mem_offset
               = Add64(lastStep.before.mem_offset, LastOperand64(1))

\* ------------------------------------------------ day7: the feedback ring
\* part2 of day7/src/main.rs for one permutation of the phases: five
\* threads, each running execute_ex on its own clone of the amplifier
\* program, connected in a ring by mpsc channels.  Amplifiers A..E are 1..5.
\* An mpsc channel is an unbounded queue; send fails once the Receiver has
\* been dropped, recv blocks while the queue is empty and a Sender lives and
\* fails once the queue is empty and the Sender has been dropped.  A thread
\* drops its Sender and its Receiver when its closure ends, by a return or
\* by a panic.
AmpCount == 5

\* The amplifier whose Receiver the Sender of amp i feeds, and the one that
\* feeds amp i.
Succ(i) == (i % AmpCount) + 1

Pred(i) == IF i = 1 THEN AmpCount ELSE i - 1

\* Amplifier programs.  AmpLoop: read the phase, then twice read a value and
\* emit it plus the phase; opcode 99 is the last cell.
AmpLoop == <<1105, 1, 6, 0, 0, 2, 3, 3, 3, 4, 1, 4, 3, 4, 4, 4,
             1001, 5, -1, 5, 1005, 5, 8, 99>>

\* AmpTwoOut: read the phase and a value x, emit x + 1 and x + 1 + phase,
\* read one more value; opcode 99 is the last cell.
AmpTwoOut == <<1105, 1, 5, 0, 0, 3, 3, 3, 4, 1001, 4, 1, 4, 4, 4,
               1, 4, 3, 4, 4, 4, 3, 4, 99>>

\* AmpTrailing: AmpLoop with its three data cells after opcode 99.
AmpTrailing == <<3, 18, 3, 19, 1, 19, 18, 19, 4, 19, 1001, 20, -1, 20,
                 1005, 20, 2, 99, 0, 0, 2>>

\* AmpStarved: read the phase and a value, emit the value, read one more
\* value, which only amplifier A is ever sent; opcode 99 is the last cell.
AmpStarved == <<1105, 1, 5, 0, 0, 3, 3, 3, 4, 4, 4, 3, 4, 99>>

AmpTexts == {AmpLoop, AmpTwoOut, AmpTrailing, AmpStarved}

\* Two of the permutations make_permutations makes of 5..9.
PhasePerms == {<<5, 6, 7, 8, 9>>, <<9, 7, 5, 8, 6>>}

AmpNames == <<"Amplifier A", "Amplifier B", "Amplifier C", "Amplifier D",
              "Amplifier E">>

\* The thread spawn_amp starts for amp: the locals of the closure, the
\* clone execute_ex works on, and, for the claims, the values passed to
\* output_fn, those whose send failed, and the values recv returned.
AmpThread(amp, phase, input_) ==
    [amp |-> amp, prg |-> amp, phase |-> phase,
     set_phase |-> FALSE, initial_input |-> input_, last_output |-> <<>>,
     pc |-> "running",
     emitted |-> <<>>, unsent |-> <<>>, received |-> <<>>]

InitRing ==
    /\ text \in AmpTexts
    /\ prog = from_str(text)
    /\ prg = <<>>
    /\ pc = "idle"
    /\ input = 0
    /\ out = <<>>
    /\ inCalls = 0
    /\ stepCalls = 0
    /\ postHaltSteps = 0
    /\ directSteps = 0
    /\ callee = from_str(text)
    /\ runs = <<>>
    /\ lastStep = NoStep
    /\ pokes = 0
    /\ \E phases \in PhasePerms :
         /\ amps = [i \in 1..AmpCount |->
                       AmpThread([prog EXCEPT !.name = AmpNames[i]],
                                 phases[i],
                                 IF i = 1 THEN <<0>> ELSE <<>>)]
         /\ part2 = [pc |-> "joining", joined |-> 0, output |-> <<>>,
                     phases |-> phases]
    /\ chans = [i \in 1..AmpCount |-> <<>>]
    /\ nodes = <<>>
    /\ packets = <<>>
    /\ nat = <<>>
    /\ nat_ys = {}
    /\ sched = [pc |-> "none"]

ringFrame == <<vmVars, nodes, packets, nat, nat_ys, sched>>

\* The while condition of execute_ex in the thread a.
AmpLoopCondition(a) ==
    InBounds(a.prg.instruction_index, a.amp.mem) /\ ~a.amp.halted

\* Where the step the thread a is about to make gets its input from: "none"
\* when it will not call input_fn, else the branch of input_fn.
InputSource(a) ==
    LET instruction == InstructionNew(a.prg.mem, a.prg.instruction_index)
    IN  IF instruction.panic # "none" \/ a.prg.halted
           \/ instruction.op # "IN" THEN "none"
        ELSE IF ~a.set_phase THEN "phase"
        ELSE IF a.initial_input # <<>> THEN "initial"
        ELSE "recv"

\* The thread a after its input_fn has returned from the branch source.
AfterInput(a, source) ==
    CASE source = "phase"   -> [a EXCEPT !.set_phase = TRUE]
      [] source = "initial" -> [a EXCEPT !.initial_input = <<>>]
      [] OTHER              -> a

\* The thread a after its output_fn has been called with each of outs, the
\* Receiver of the next amplifier being alive or not.
AfterOutput(a, outs, alive) ==
    IF outs = <<>> THEN a
    ELSE [a EXCEPT !.last_output = <<outs[Len(outs)]>>,
                   !.emitted = @ \o outs,
                   !.unsent = IF alive THEN @ ELSE @ \o outs]

\* An iteration that receives the value sent last instead of the one sent
\* first.
AmpIter_lifo(i) ==
    LET a == amps[i]
        source == InputSource(a)
    IN  /\ part2.pc = "joining"
        /\ a.pc = "running"
        /\ AmpLoopCondition(a)
        /\ source = "recv" => chans[i] # <<>>
        /\ LET in_val == CASE source = "phase"   -> a.phase
                           [] source = "initial" -> a.initial_input[1]
                           [] source = "recv"    -> chans[i][Len(chans[i])]
                           [] OTHER              -> 0
               r == step(a.prg, in_val)
               alive == amps[Succ(i)].pc = "running"
               b == AfterOutput(AfterInput(a, source), r.outs, alive)
           IN  /\ amps' = [amps EXCEPT ![i] =
                             [b EXCEPT !.prg = r.prg,
                                       !.received = IF source = "recv"
                                                    THEN Append(@, in_val)
                                                    ELSE @,
                                       !.pc = IF r.result = "panic"
                                              THEN "panicked" ELSE @]]
               /\ chans' = [j \in 1..AmpCount |->
                              IF j = i /\ source = "recv"
                              THEN SubSeq(chans[j], 1, Len(chans[j]) - 1)
                              ELSE IF j = Succ(i) /\ alive
                              THEN chans[j] \o r.outs
                              ELSE chans[j]]
        /\ UNCHANGED part2
        /\ UNCHANGED ringFrame

\* One iteration of the loop of execute_ex in the thread of amp i: a call
\* of step, with the calls of input_fn and output_fn it makes.  A recv on an
\* empty channel whose Sender lives blocks.
AmpIter(i) ==
    LET a == amps[i]
        source == InputSource(a)
    IN  /\ part2.pc = "joining"
        /\ a.pc = "running"
        /\ AmpLoopCondition(a)
        /\ source = "recv" => chans[i] # <<>>
        /\ LET in_val == CASE source = "phase"   -> a.phase
                           [] source = "initial" -> a.initial_input[1]
                           [] source = "recv"    -> Head(chans[i])
                           [] OTHER              -> 0
               r == step(a.prg, in_val)
               alive == amps[Succ(i)].pc = "running"
               b == AfterOutput(AfterInput(a, source), r.outs, alive)
           IN  /\ amps' = [amps EXCEPT ![i] =
                             [b EXCEPT !.prg = r.prg,
                                       !.received = IF source = "recv"
                                                    THEN Append(@, in_val)
                                                    ELSE @,
                                       !.pc = IF r.result = "panic"
                                              THEN "panicked" ELSE @]]
               /\ chans' = [j \in 1..AmpCount |->
                              IF j = i /\ source = "recv"
                              THEN Tail(chans[j])
                              ELSE IF j = Succ(i) /\ alive
                              THEN chans[j] \o r.outs
                              ELSE chans[j]]
        /\ UNCHANGED part2
        /\ UNCHANGED ringFrame

\* `rx.recv().unwrap()` on an empty channel whose Sender has been dropped:
\* recv fails and the thread panics.
AmpRecvFails(i) ==
    LET a == amps[i]
    IN  /\ part2.pc = "joining"
        /\ a.pc = "running"
        /\ AmpLoopCondition(a)
        /\ InputSource(a) = "recv"
        /\ chans[i] = <<>>
        /\ amps[Pred(i)].pc # "running"
        /\ amps' = [amps EXCEPT ![i].pc = "panicked"]
        /\ UNCHANGED <<chans, part2>>
        /\ UNCHANGED ringFrame

\* The loop of execute_ex ends and the closure returns last_output.
AmpReturn(i) ==
    LET a == amps[i]
    IN  /\ part2.pc = "joining"
        /\ a.pc = "running"
        /\ ~AmpLoopCondition(a)
        /\ amps' = [amps EXCEPT ![i].pc = "returned"]
        /\ UNCHANGED <<chans, part2>>
        /\ UNCHANGED ringFrame

\* A join that reports the output of amplifier D.
Part2Join_amp_d ==
    LET k == part2.joined + 1
    IN  /\ part2.pc = "joining"
        /\ amps[k].pc # "running"
        /\ part2' =
             IF amps[k].pc = "panicked"
             THEN [part2 EXCEPT !.pc = "panicked"]
             ELSE IF k < AmpCount THEN [part2 EXCEPT !.joined = k]
             ELSE IF amps[k - 1].last_output = <<>>
             THEN [part2 EXCEPT !.joined = k, !.pc = "panicked"]
             ELSE [part2 EXCEPT !.joined = k, !.pc = "done",
                                !.output = amps[k - 1].last_output]
        /\ UNCHANGED <<amps, chans>>
        /\ UNCHANGED ringFrame

\* part2 joins the next thread, A to D and then E: `amp.join().expect(..)`
\* panics when the thread has panicked, and after the join of E
\* `output.unwrap()` panics when E has emitted nothing.
Part2Join ==
    LET k == part2.joined + 1
    IN  /\ part2.pc = "joining"
        /\ amps[k].pc # "running"
        /\ part2' =
             IF amps[k].pc = "panicked"
             THEN [part2 EXCEPT !.pc = "panicked"]
             ELSE IF k < AmpCount THEN [part2 EXCEPT !.joined = k]
             ELSE IF amps[k].last_output = <<>>
             THEN [part2 EXCEPT !.joined = k, !.pc = "panicked"]
             ELSE [part2 EXCEPT !.joined = k, !.pc = "done",
                                !.output = amps[k].last_output]
        /\ UNCHANGED <<amps, chans>>
        /\ UNCHANGED ringFrame

NextRing ==
    \/ \E i \in 1..AmpCount : AmpIter(i)
    \/ \E i \in 1..AmpCount : AmpRecvFails(i)
    \/ \E i \in 1..AmpCount : AmpReturn(i)
    \/ Part2Join

SpecRing == InitRing /\ [][NextRing]_vars

\* s is an initial part of t.
IsPrefix(s, t) == Len(s) <= Len(t) /\ SubSeq(t, 1, Len(s)) = s

\* Every thread of the ring has ended.
AllEnded == \A i \in 1..AmpCount : amps[i].pc # "running"

\* C24 as claimed: when the threads have ended, each amplifier has received
\* from its channel exactly the values its predecessor emitted, those emitted
\* after it stopped receiving included.
C24_ReceivedExactly ==
    AllEnded =>
        \A i \in 1..AmpCount : amps[i].received = amps[Pred(i)].emitted

\* C24, amended: under every interleaving the values an amplifier has
\* received are an initial part of the values its predecessor has emitted,
\* in the same order and without a gap: the values received, then those
\* waiting in the channel, then those whose send failed, are the values
\* emitted.  A send fails only after the receiving thread has ended, and
\* its value is discarded like the values still waiting then.
C24_ReceivedPrefix ==
    \A i \in 1..AmpCount :
        /\ amps[Pred(i)].emitted
             = amps[i].received \o chans[i] \o amps[Pred(i)].unsent
        /\ IsPrefix(amps[i].received, amps[Pred(i)].emitted)
        /\ amps[Pred(i)].unsent # <<>> => amps[i].pc # "running"

\* The ring has ended with a result; B has received two different values in
\* the order A emitted them, and the last value E emitted found the thread
\* of A ended.
C24_Witness ==
    /\ part2.pc = "done"
    /\ AllEnded
    /\ Len(amps[2].received) = 2
    /\ amps[2].received[1] # amps[2].received[2]
    /\ amps[2].received = amps[1].emitted
    /\ amps[AmpCount].unsent # <<>>
    /\ Len(amps[1].received) < Len(amps[AmpCount].emitted)

\* C25: under every interleaving, the result part2 reports for a
\* permutation, which it does after all five threads have ended, is the last
\* value amplifier E emitted.
C25_ResultIsLastOfE ==
    part2.pc = "done" =>
        /\ AllEnded
        /\ amps[AmpCount].emitted # <<>>
        /\ part2.output =
             <<amps[AmpCount].emitted[Len(amps[AmpCount].emitted)]>>

\* All five amplifiers have halted and the result is reported; E emitted
\* two different values, and D ended on another value than E.
C25_Witness ==
    /\ part2.pc = "done"
    /\ \A i \in 1..AmpCount : amps[i].prg.halted /\ amps[i].pc = "returned"
    /\ Len(amps[AmpCount].emitted) >= 2
    /\ amps[AmpCount].emitted[1] # amps[AmpCount].emitted[2]
    /\ amps[AmpCount - 1].last_output # amps[AmpCount].last_output
    /\ part2.output = amps[AmpCount].last_output

\* ------------------------------------------- day23: the cooperative network
\* main of day23/src/main.rs: one thread that holds the Programs of the
\* nodes and, pass after pass, steps each node in turn, its input closure
\* taking packets from the node's queue and its output closure routing the
\* triples the node emits.  The 50 nodes of the source are NODE_COUNT here.
NODE_COUNT == 3
NAT_INPUT_ADDR == 0
NAT_OUTPUT_ADDR == 255

\* The queue of node in the PacketQueue; a HashMap has no entry for a key
\* that was never inserted.
QueueOf(node, pq) == IF node \in DOMAIN pq THEN pq[node] ELSE <<>>

\* recv that inserts an empty queue for a node that has none.
recv_creates_queue(node, pq) ==
    IF node \in DOMAIN pq
    THEN IF pq[node] # <<>>
         THEN [packet |-> <<Head(pq[node])>>,
               packets |-> [pq EXCEPT ![node] = Tail(@)]]
         ELSE [packet |-> <<>>, packets |-> pq]
    ELSE [packet |-> <<>>,
          packets |-> [k \in DOMAIN pq \cup {node} |-> QueueOf(k, pq)]]

\* recv(node, packets): the packet popped from the front of the queue of
\* node, if there is a queue and it is not empty, and the PacketQueue
\* afterwards.
recv(node, pq) ==
    IF node \in DOMAIN pq
    THEN IF pq[node] # <<>>
         THEN [packet |-> <<Head(pq[node])>>,
               packets |-> [pq EXCEPT ![node] = Tail(@)]]
         ELSE [packet |-> <<>>, packets |-> pq]
    ELSE [packet |-> <<>>, packets |-> pq]

\* send that puts the packet at the front of the queue.
send_front(node, packet, pq) ==
    [k \in DOMAIN pq \cup {node} |->
        IF k = node THEN <<packet>> \o QueueOf(k, pq) ELSE pq[k]]

\* send(node, packet, packets): the PacketQueue with the packet pushed to
\* the back of the queue of node, which is inserted if it was missing.
send(node, packet, pq) ==
    [k \in DOMAIN pq \cup {node} |->
        IF k = node THEN Append(QueueOf(k, pq), packet) ELSE pq[k]]

\* Node programs.  Every node reads its address.  Node 0 then polls its
\* input and answers each packet (x, y) with the packet (x, x - y) to
\* address 255.  Node 1 sends the packet (d0, x0, y0), every other node
\* the packet (d1, x1, y1), and then they poll their input for ever.
NetText(d0, x0, y0, d1, x1, y1) ==
    <<3, 60, 1005, 60, 33,
      3, 61, 1008, 61, -1, 63, 1005, 63, 5,
      3, 62, 1002, 62, -1, 62, 1, 61, 62, 62,
      104, 255, 4, 61, 4, 62, 1105, 1, 5,
      1008, 60, 1, 63, 1005, 63, 49,
      104, d1, 104, x1, 104, y1, 1105, 1, 55,
      104, d0, 104, x0, 104, y0,
      3, 61, 1105, 1, 55,
      0, 0, 0, 0>>

\* The y of the monitor packets alternates (1, 2, 1); it repeats at once
\* (1, 1); a packet goes to an address that is no node; a node writes to
\* address 255 itself; two nodes write to node 0; two nodes write to
\* address 255.
NetAlternating == NetText(0, 3, 2, 2, 9, 8)
NetRepeating == NetText(0, 2, 1, 2, 9, 8)
NetStray == NetText(0, 3, 2, 7, 1, 1)
NetDirectNat == NetText(255, 5, 5, 0, 4, 2)
NetTwoSenders == NetText(0, 3, 2, 0, 6, 1)
NetOverwrite == NetText(255, 5, 5, 255, 7, 7)

NetTexts ==
    {NetAlternating, NetRepeating, NetStray, NetDirectNat, NetTwoSenders,
     NetOverwrite}

\* The locals of main and of the current visit of a node, and for the
\* claims: the values each node has passed to its output closure, the
\* packets routed or injected (an injection is from address 255), the
\* packets each node has taken from its queue, the packets injected, the
\* number of calls of output closures and the nodes visited in the current
\* pass, whether a pass has ended not idle with a packet in the monitor
\* slot, and the latest call of the input closure.
NoInputCall ==
    [node |-> -1, pending |-> FALSE, exists |-> FALSE, queue |-> <<>>,
     value |-> 0]

NewPass(s) ==
    [s EXCEPT !.pc = "stepping", !.node = 0, !.idle = TRUE,
              !.send_buffer = <<>>, !.recv_buffer = <<>>,
              !.outputs_in_pass = 0, !.visited = {}]

InitNet ==
    /\ text \in NetTexts
    /\ prog = from_str(text)
    /\ prg = <<>>
    /\ pc = "idle"
    /\ input = 0
    /\ out = <<>>
    /\ inCalls = 0
    /\ stepCalls = 0
    /\ postHaltSteps = 0
    /\ directSteps = 0
    /\ callee = from_str(text)
    /\ runs = <<>>
    /\ lastStep = NoStep
    /\ pokes = 0
    /\ amps = <<>>
    /\ chans = <<>>
    /\ part2 = [pc |-> "none"]
    /\ nodes = [i \in 1..NODE_COUNT |-> prog]
    /\ packets = <<>>
    /\ nat = <<>>
    /\ nat_ys = {}
    /\ sched = [pc |-> "init", node |-> 0, idle |-> TRUE,
                send_buffer |-> <<>>, recv_buffer |-> <<>>,
                emitted |-> [i \in 1..NODE_COUNT |-> <<>>],
                sent |-> <<>>,
                delivered |-> [i \in 1..NODE_COUNT |-> <<>>],
                injected |-> <<>>,
                outputs_in_pass |-> 0,
                visited |-> {},
                held_back |-> FALSE,
                last_input |-> NoInputCall]

netFrame == <<vmVars, amps, chans, part2>>

\* "Initialize the nodes": step node i until its input closure has been
\* called, which returns i; the output closure does nothing.
NodeInit ==
    LET n == sched.node
        r == step(nodes[n + 1], n)
        done == r.in_calls = 1
    IN  /\ sched.pc = "init"
        /\ nodes' = [nodes EXCEPT ![n + 1] = r.prg]
        /\ sched' =
             IF r.result = "panic" THEN [sched EXCEPT !.pc = "panicked"]
             ELSE IF ~done THEN sched
             ELSE IF n + 1 < NODE_COUNT THEN [sched EXCEPT !.node = n + 1]
             ELSE NewPass(sched)
        /\ UNCHANGED <<packets, nat, nat_ys>>
        /\ UNCHANGED netFrame

\* The input closure of the visit of node n: the value it returns, and the
\* recv_buffer and the PacketQueue after the call.
InputClosure(n, recv_buffer, pq) ==
    IF recv_buffer # <<>>
    THEN [value |-> recv_buffer[1], recv_buffer |-> <<>>, packets |-> pq,
          delivered |-> <<>>]
    ELSE LET got == recv(n, pq)
         IN  IF got.packet # <<>>
             THEN [value |-> got.packet[1][1],
                   recv_buffer |-> <<got.packet[1][2]>>,
                   packets |-> got.packets,
                   delivered |-> got.packet]
             ELSE [value |-> -1, recv_buffer |-> <<>>,
                   packets |-> got.packets, delivered |-> <<>>]

\* The output closure called with val: send_buffer, the monitor slot and the
\* PacketQueue after the call, and the triple it routed, if any.
OutputClosure(val, send_buffer, nat_, pq) ==
    LET buf == Append(send_buffer, val)
    IN  IF Len(buf) # 3
        THEN [send_buffer |-> buf, nat |-> nat_, packets |-> pq,
              routed |-> <<>>]
        ELSE LET addr == buf[1]
                 packet == <<buf[2], buf[3]>>
             IN  IF addr = NAT_OUTPUT_ADDR
                 THEN [send_buffer |-> <<>>, nat |-> <<packet>>,
                       packets |-> pq,
                       routed |-> <<[addr |-> addr, packet |-> packet]>>]
                 ELSE [send_buffer |-> <<>>, nat |-> nat_,
                       packets |-> send(addr, packet, pq),
                       routed |-> <<[addr |-> addr, packet |-> packet]>>]

\* A turn of the visit whose test looks at send_buffer only: the visit may
\* end between the x and the y of a packet, whose y is dropped with the
\* recv_buffer of the visit.
NodeStep_ignores_recv ==
    LET n == sched.node
        i == InputClosure(n, sched.recv_buffer, packets)
        r == step(nodes[n + 1], i.value)
        called == r.in_calls = 1
        recv_buffer == IF called THEN i.recv_buffer ELSE sched.recv_buffer
        pq == IF called THEN i.packets ELSE packets
        o == IF r.outs = <<>>
             THEN [send_buffer |-> sched.send_buffer, nat |-> nat,
                   packets |-> pq, routed |-> <<>>]
             ELSE OutputClosure(r.outs[1], sched.send_buffer, nat, pq)
        s == [sched EXCEPT
                !.idle = IF r.outs = <<>> THEN @ ELSE FALSE,
                !.send_buffer = o.send_buffer,
                !.recv_buffer = recv_buffer,
                !.emitted[n + 1] = @ \o r.outs,
                !.sent = @ \o [k \in 1..Len(o.routed) |->
                                    [from |-> n, addr |-> o.routed[k].addr,
                                     packet |-> o.routed[k].packet]],
                !.delivered[n + 1] = IF called THEN @ \o i.delivered ELSE @,
                !.outputs_in_pass = @ + Len(r.outs),
                !.visited = @ \cup {n},
                !.last_input =
                    IF called
                    THEN [node |-> n, pending |-> sched.recv_buffer # <<>>,
                          exists |-> n \in DOMAIN packets,
                          queue |-> QueueOf(n, packets), value |-> i.value]
                    ELSE NoInputCall]
    IN  /\ sched.pc = "stepping"
        /\ nodes' = [nodes EXCEPT ![n + 1] = r.prg]
        /\ packets' = o.packets
        /\ nat' = o.nat
        /\ sched' =
             IF r.result = "panic" THEN [s EXCEPT !.pc = "panicked"]
             ELSE IF o.send_buffer # <<>> THEN s
             ELSE IF n + 1 < NODE_COUNT
                  THEN [s EXCEPT !.node = n + 1, !.recv_buffer = <<>>]
             ELSE [s EXCEPT !.pc = "idle_check", !.recv_buffer = <<>>]
        /\ UNCHANGED nat_ys
        /\ UNCHANGED netFrame

\* One turn of the inner loop of the visit of the current node: a call of
\* step with the two closures, then the test that ends the visit.
NodeStep ==
    LET n == sched.node
        i == InputClosure(n, sched.recv_buffer, packets)
        r == step(nodes[n + 1], i.value)
        called == r.in_calls = 1
        recv_buffer == IF called THEN i.recv_buffer ELSE sched.recv_buffer
        pq == IF called THEN i.packets ELSE packets
        o == IF r.outs = <<>>
             THEN [send_buffer |-> sched.send_buffer, nat |-> nat,
                   packets |-> pq, routed |-> <<>>]
             ELSE OutputClosure(r.outs[1], sched.send_buffer, nat, pq)
        s == [sched EXCEPT
                !.idle = IF r.outs = <<>> THEN @ ELSE FALSE,
                !.send_buffer = o.send_buffer,
                !.recv_buffer = recv_buffer,
                !.emitted[n + 1] = @ \o r.outs,
                !.sent = @ \o [k \in 1..Len(o.routed) |->
                                    [from |-> n, addr |-> o.routed[k].addr,
                                     packet |-> o.routed[k].packet]],
                !.delivered[n + 1] = IF called THEN @ \o i.delivered ELSE @,
                !.outputs_in_pass = @ + Len(r.outs),
                !.visited = @ \cup {n},
                !.last_input =
                    IF called
                    THEN [node |-> n, pending |-> sched.recv_buffer # <<>>,
                          exists |-> n \in DOMAIN packets,
                          queue |-> QueueOf(n, packets), value |-> i.value]
                    ELSE NoInputCall]
    IN  /\ sched.pc = "stepping"
        /\ nodes' = [nodes EXCEPT ![n + 1] = r.prg]
        /\ packets' = o.packets
        /\ nat' = o.nat
        /\ sched' =
             IF r.result = "panic" THEN [s EXCEPT !.pc = "panicked"]
             ELSE IF ~(o.send_buffer = <<>> /\ recv_buffer = <<>>) THEN s
             ELSE IF n + 1 < NODE_COUNT THEN [s EXCEPT !.node = n + 1]
             ELSE [s EXCEPT !.pc = "idle_check"]
        /\ UNCHANGED nat_ys
        /\ UNCHANGED netFrame

\* The value of idle after the fold over the queues at the end of a pass.
IdleAfterPass ==
    sched.idle /\ \A k \in DOMAIN packets : packets[k] = <<>>

\* The end of a pass at which nothing is injected: not idle, or no packet in
\* the monitor slot.
PassEnd ==
    /\ sched.pc = "idle_check"
    /\ ~(IdleAfterPass /\ nat # <<>>)
    /\ sched' = [NewPass(sched) EXCEPT !.held_back = @ \/ nat # <<>>]
    /\ UNCHANGED <<nodes, packets, nat, nat_ys>>
    /\ UNCHANGED netFrame

\* An injection that leaves the packet in the monitor slot.
NatInject_keeps_packet ==
    /\ sched.pc = "idle_check"
    /\ IdleAfterPass /\ nat # <<>>
    /\ nat[1][2] \notin nat_ys
    /\ nat_ys' = nat_ys \cup {nat[1][2]}
    /\ packets' = send(NAT_INPUT_ADDR, nat[1], packets)
    /\ nat' = nat
    /\ sched' = [NewPass(sched) EXCEPT
                    !.injected = Append(@, nat[1]),
                    !.sent = Append(@, [from |-> NAT_OUTPUT_ADDR,
                                        addr |-> NAT_INPUT_ADDR,
                                        packet |-> nat[1]])]
    /\ UNCHANGED nodes
    /\ UNCHANGED netFrame

\* An injection made whenever no node has written in the pass, also when a
\* queue still holds a packet.
NatInject_ignores_queues ==
    /\ sched.pc = "idle_check"
    /\ sched.idle /\ nat # <<>>
    /\ nat[1][2] \notin nat_ys
    /\ nat_ys' = nat_ys \cup {nat[1][2]}
    /\ packets' = send(NAT_INPUT_ADDR, nat[1], packets)
    /\ nat' = <<>>
    /\ sched' = [NewPass(sched) EXCEPT
                    !.injected = Append(@, nat[1]),
                    !.sent = Append(@, [from |-> NAT_OUTPUT_ADDR,
                                        addr |-> NAT_INPUT_ADDR,
                                        packet |-> nat[1]])]
    /\ UNCHANGED nodes
    /\ UNCHANGED netFrame

\* Idle, with a packet in the monitor slot whose y was not injected before:
\* the packet is sent to node 0 and the slot is cleared.
NatInject ==
    /\ sched.pc = "idle_check"
    /\ IdleAfterPass /\ nat # <<>>
    /\ nat[1][2] \notin nat_ys
    /\ nat_ys' = nat_ys \cup {nat[1][2]}
    /\ packets' = send(NAT_INPUT_ADDR, nat[1], packets)
    /\ nat' = <<>>
    /\ sched' = [NewPass(sched) EXCEPT
                    !.injected = Append(@, nat[1]),
                    !.sent = Append(@, [from |-> NAT_OUTPUT_ADDR,
                                        addr |-> NAT_INPUT_ADDR,
                                        packet |-> nat[1]])]
    /\ UNCHANGED nodes
    /\ UNCHANGED netFrame

\* Idle, with a packet in the monitor slot whose y is in nat_ys: main prints
\* the y and leaves its loop.
NatTerminate ==
    /\ sched.pc = "idle_check"
    /\ IdleAfterPass /\ nat # <<>>
    /\ nat[1][2] \in nat_ys
    /\ sched' = [sched EXCEPT !.pc = "done"]
    /\ UNCHANGED <<nodes, packets, nat, nat_ys>>
    /\ UNCHANGED netFrame

NextNet ==
    \/ NodeInit
    \/ NodeStep
    \/ PassEnd
    \/ NatInject
    \/ NatTerminate

SpecNet == InitNet /\ [][NextNet]_vars

\* The input closure was called in the step just taken, with no second half
\* of a packet pending and with no packet in the queue of the node.
InputFoundNothing ==
    /\ sched'.last_input.node = sched.node
    /\ ~sched'.last_input.pending
    /\ sched'.last_input.queue = <<>>

\* C26: the input closure of a node never blocks: while main visits nodes a
\* step with its closures can always be taken, and a call of the input
\* closure that finds no pending second half of a packet and no packet in the
\* queue of the node, or no queue for the node, returns -1 and leaves every
\* queue, and the set of queues, as it was.
C26_InputNeverBlocks ==
    /\ [](sched.pc = "stepping" => ENABLED NodeStep)
    /\ [][(NodeStep /\ InputFoundNothing) =>
            /\ sched'.last_input.value = -1
            /\ packets' = packets
            /\ sched'.recv_buffer = <<>>]_vars

\* A node whose queue exists and has been drained has asked for input and
\* received -1, in a network with a node that has no queue.
C26_Witness ==
    /\ sched.last_input.node \in 0..(NODE_COUNT - 1)
    /\ sched.last_input.exists
    /\ sched.last_input.queue = <<>>
    /\ ~sched.last_input.pending
    /\ sched.last_input.value = -1
    /\ sched.delivered[sched.last_input.node + 1] # <<>>
    /\ \E m \in 0..(NODE_COUNT - 1) : m \notin DOMAIN packets

RECURSIVE Triples(_)
\* The values of the packets of a log, each as address, x, y.
Triples(log) ==
    IF log = <<>> THEN <<>>
    ELSE <<log[1].addr, log[1].packet[1], log[1].packet[2]>>
            \o Triples(Tail(log))

RECURSIVE LogWhere(_, _, _)
\* The entries of a log whose field has the value, in order.
LogWhere(log, field, value) ==
    IF log = <<>> THEN <<>>
    ELSE (IF log[1][field] = value THEN <<log[1]>> ELSE <<>>)
            \o LogWhere(Tail(log), field, value)

PacketsOf(log) == [k \in 1..Len(log) |-> log[k].packet]

\* The values of a node's output not yet part of a complete triple.
Unrouted(n) ==
    IF sched.pc = "stepping" /\ sched.node = n THEN sched.send_buffer
    ELSE <<>>

\* C27: the values a node has written are, in order, the triples
\* (address, x, y) routed for it followed by the values of its unfinished
\* triple; the step that completes a triple with address 255 stores (x, y)
\* in the monitor slot and changes no queue, and with any other address
\* appends (x, y) to the tail of the queue of that address and changes no
\* other queue nor the slot; and the packets taken from a queue followed by
\* those still in it are the packets appended to it, in order.
C27_TriplesRoutedInOrder ==
    /\ [](sched.pc \in {"stepping", "idle_check", "done"} =>
            /\ \A n \in 0..(NODE_COUNT - 1) :
                 sched.emitted[n + 1] =
                    Triples(LogWhere(sched.sent, "from", n)) \o Unrouted(n)
            /\ \A k \in DOMAIN packets \cup (0..(NODE_COUNT - 1)) :
                 PacketsOf(LogWhere(sched.sent, "addr", k)) =
                    (IF k \in 0..(NODE_COUNT - 1)
                     THEN sched.delivered[k + 1] ELSE <<>>)
                        \o QueueOf(k, packets))
    /\ [][(NodeStep /\ Len(sched'.sent) = Len(sched.sent) + 1) =>
            LET t == sched'.sent[Len(sched'.sent)]
            IN  /\ t.from = sched.node
                /\ IF t.addr = NAT_OUTPUT_ADDR
                   THEN nat' = <<t.packet>> /\ packets' = packets
                   ELSE /\ nat' = nat
                        /\ DOMAIN packets' = DOMAIN packets \cup {t.addr}
                        /\ packets'[t.addr] =
                             Append(QueueOf(t.addr, packets), t.packet)
                        /\ \A k \in DOMAIN packets \ {t.addr} :
                             packets'[k] = packets[k]]_vars

\* Node 0 has taken one packet from its queue, which holds another, and has
\* answered with a triple to address 255, which is in the monitor slot.
C27_Witness ==
    /\ Len(sched.delivered[1]) = 1
    /\ QueueOf(0, packets) # <<>>
    /\ nat # <<>>
    /\ Len(LogWhere(sched.sent, "from", 0)) = 1
    /\ sched.sent[Len(sched.sent)].packet = nat[1]

\* C28: a packet is injected, or main stops, only at the end of a pass in
\* which every node was visited, no output closure was called and after
\* which every queue is empty; at the end of a pass in which an output
\* closure was called, or after which a queue holds a packet, nothing is
\* injected and main goes on.
C28_InjectOnlyWhenIdle ==
    [][/\ (Len(sched'.injected) > Len(sched.injected) \/
           (sched'.pc = "done" /\ sched.pc # "done")) =>
            /\ sched.pc = "idle_check"
            /\ sched.visited = 0..(NODE_COUNT - 1)
            /\ sched.outputs_in_pass = 0
            /\ \A k \in DOMAIN packets : packets[k] = <<>>
       /\ (/\ sched.pc = "idle_check"
           /\ \/ sched.outputs_in_pass > 0
              \/ \E k \in DOMAIN packets : packets[k] # <<>>) =>
            /\ sched'.injected = sched.injected
            /\ packets' = packets
            /\ nat' = nat
            /\ sched'.pc = "stepping"]_vars

\* A pass has ended not idle with a packet in the monitor slot, nothing
\* being injected, and a later pass has ended idle and the packet was
\* injected.
C28_Witness ==
    /\ sched.held_back
    /\ sched.injected # <<>>
    /\ sched.pc = "stepping"

\* An idle event: the end of a pass found idle with a packet in the monitor
\* slot.
IdleEvent ==
    /\ sched.pc = "idle_check"
    /\ IdleAfterPass
    /\ nat # <<>>

\* C29: at an idle event main stops exactly when the y of the packet in the
\* monitor slot is the y of the packet injected at the idle event before;
\* otherwise it injects the packet and goes on.
C29_StopsOnImmediateRepeat ==
    [][IdleEvent =>
        IF /\ sched.injected # <<>>
           /\ nat[1][2] = sched.injected[Len(sched.injected)][2]
        THEN sched'.pc = "done"
        ELSE /\ sched'.pc = "stepping"
             /\ sched'.injected = Append(sched.injected, nat[1])]_vars

\* C30: an idle event at which main goes on appends the packet of the
\* monitor slot, which is the packet of the latest triple written to address
\* 255, to the queue of node 0, changes no other queue and clears the slot;
\* the end of an idle pass with an empty slot changes no queue; and no more
\* packets have been injected than triples were written to address 255.
C30_InjectOnceAndClear ==
    /\ [](LET stored == LogWhere(sched.sent, "addr", NAT_OUTPUT_ADDR)
          IN  /\ nat # <<>> =>
                    /\ stored # <<>>
                    /\ nat[1] = stored[Len(stored)].packet
              /\ Len(sched.injected) + Len(nat) <= Len(stored))
    /\ [][/\ (IdleEvent /\ sched'.pc # "done") =>
               /\ DOMAIN packets' = DOMAIN packets \cup {NAT_INPUT_ADDR}
               /\ packets'[NAT_INPUT_ADDR] =
                    Append(QueueOf(NAT_INPUT_ADDR, packets), nat[1])
               /\ \A k \in DOMAIN packets \ {NAT_INPUT_ADDR} :
                    packets'[k] = packets[k]
               /\ nat' = <<>>
          /\ (sched.pc = "idle_check" /\ IdleAfterPass /\ nat = <<>>) =>
               /\ packets' = packets
               /\ nat' = <<>>
               /\ sched'.injected = sched.injected]_vars

\* Two triples were written to address 255 before the first idle event; the
\* second was injected into the queue of node 0 and the slot is empty.
C30_Witness ==
    /\ Len(LogWhere(sched.sent, "addr", NAT_OUTPUT_ADDR)) = 2
    /\ Len(sched.injected) = 1
    /\ sched.injected[1] = sched.sent[2].packet
    /\ sched.injected[1] # sched.sent[1].packet
    /\ packets[NAT_INPUT_ADDR] = sched.injected
    /\ nat = <<>>

\* ------------------------------------------- every opcode in every mode
\* Texts that take each opcode through its modes: sums and products of
\* RELATIVE operands stored through a RELATIVE destination, after a positive
\* and a negative adjustment of the relative base
OpsRelAdd == <<109, 2, 22201, 1, 2, 5, 99>>
OpsRelMul == <<109, -1, 22202, 4, 5, 8, 99>>
\* comparisons and a product of POSITION operands, stored beyond the memory
\* and into it
OpsPosLt == <<7, 1, 2, 5, 99>>
OpsPosEq == <<8, 1, 1, 5, 99>>
OpsPosMul == <<2, 0, 4, 0, 99>>
\* input and output through the relative base
OpsInRel == <<109, 5, 203, 2, 4, 7, 99>>
OpsOutRel == <<109, 1, 204, 2, 99>>
\* the relative base adjusted by a POSITION and by a RELATIVE operand
OpsBase == <<9, 1, 209, 3, 204, -3, 99>>
\* jumps taken and not taken, with DIRECT, POSITION and RELATIVE operands
OpsJumps == <<1105, 7, 4, 0, 1106, 7, 0, 1106, 0, 11, 0, 1105, 0, 0,
              5, 0, 17, 19, 0, 109, 16, 2206, 2, 8, 25, 99>>
\* a jump that is not taken and one that is, with POSITION operands
OpsJumpPast == <<6, 0, 0, 5, 6, 0, 99>>
\* texts that end inside an instruction: the opcode is the last cell, or a
\* parameter is missing
OpsCutOut == <<4>>
OpsCutAdd == <<1101, 5, 6>>
OpsCutJump == <<104, 7, 1106, 1>>

OpTexts == {OpsRelAdd, OpsRelMul, OpsPosLt, OpsPosEq, OpsPosMul, OpsInRel,
            OpsOutRel, OpsBase, OpsJumps, OpsJumpPast, OpsCutOut, OpsCutAdd,
            OpsCutJump, Echo, HaltThenCell}

\* A Program constructed from one of OpTexts, which the client pokes, steps
\* and runs to completion.
InitOps ==
    /\ text \in OpTexts
    /\ prog = from_str(text)
    /\ prg = <<>>
    /\ pc = "idle"
    /\ input = 0
    /\ out = <<>>
    /\ inCalls = 0
    /\ stepCalls = 0
    /\ postHaltSteps = 0
    /\ directSteps = 0
    /\ callee = from_str(text)
    /\ runs = <<>>
    /\ lastStep = NoStep
    /\ pokes = 0
    /\ NoClients

SpecOps == InitOps /\ [][NextStep]_vars

\* ------------------------------ the instruction the latest step executed
\* The opcode, the parameters and the operands of the latest call of step,
\* taken from the raw cells of the memory before the call.
LastOpcode == LowTwoDigits(LastCell)

LastParam(i) ==
    lastStep.before.mem[lastStep.before.instruction_index + 1 + i]

LastMode(i) == ModeDigit(LastCell, i - 1)

LastAddr(i) ==
    IF LastMode(i) = 2 THEN LastParam(i) + lastStep.before.mem_offset
    ELSE LastParam(i)

LastOperand(i) ==
    IF LastMode(i) = 1 THEN LastParam(i)
    ELSE IF InBounds(LastAddr(i), lastStep.before.mem)
         THEN lastStep.before.mem[LastAddr(i) + 1]
         ELSE 0

\* The latest call of step returned Ok.
LastOk == LastExecuted /\ lastStep.result = "Ok"

\* How far the latest call of step moved the instruction pointer.
LastAdvance ==
    lastStep.after.instruction_index - lastStep.before.instruction_index

LastJumpTaken ==
    \/ LastOpcode = OPCODE_JIT /\ LastOperand(1) # 0
    \/ LastOpcode = OPCODE_JIF /\ LastOperand(1) = 0

\* What a step that returned Ok did to the instruction pointer.
OkAdvance ==
    LastOk =>
        /\ LastOpcode \in {OPCODE_ADD, OPCODE_MUL, OPCODE_LT, OPCODE_EQ}
              => LastAdvance = 4
        /\ LastOpcode \in {OPCODE_IN, OPCODE_OUT, OPCODE_BASE}
              => LastAdvance = 2
        /\ (LastOpcode \in {OPCODE_JIT, OPCODE_JIF} /\ ~LastJumpTaken)
              => LastAdvance = 3
        /\ LastJumpTaken
              => lastStep.after.instruction_index = LastOperand(2)

\* No call other than a step on self moves the instruction pointer of self.
OnlyStepMovesPointer ==
    [][directSteps' = directSteps =>
          prog'.instruction_index = prog.instruction_index]_vars

\* C31 as claimed: a step that returns Ok moves the instruction pointer by
\* 4 for opcodes 1, 2, 7, 8, by 2 for opcodes 3, 4, 9, by 3 for a jump not
\* taken and to read(p2) for a jump taken; and nothing else changes it: a
\* step that returns the halted-program error leaves it where it was, and
\* so do poke and execute_ex.
C31_PointerUpdate ==
    /\ [](/\ OkAdvance
          /\ (lastStep.on # "none" /\ lastStep.result = "ProgramHalt")
                => LastAdvance = 0)
    /\ OnlyStepMovesPointer

\* C31, amended: as above for the steps that return Ok; the step that
\* executes opcode 99 moves the instruction pointer by 1; the step rejected
\* because the Program was halted, poke and execute_ex leave it where it was.
C31_PointerUpdateAndHalt ==
    /\ [](/\ OkAdvance
          /\ (lastStep.on # "none" /\ lastStep.result = "ProgramHalt")
                => LastAdvance = (IF lastStep.halted_before THEN 0 ELSE 1))
    /\ OnlyStepMovesPointer

\* A run has ended with the step of opcode 99, which moved the instruction
\* pointer by 1, after jumps taken through the relative base.
C31_Witness ==
    /\ pc = "returned"
    /\ lastStep.on = "clone"
    /\ LastExecuted
    /\ LastOpcode = OPCODE_HALT
    /\ LastAdvance = 1
    /\ lastStep.before.mem_offset = 16
    /\ lastStep.before.instruction_index = 25

\* C32: the relative base of a Program is 0 until a step is made on it; a
\* step that executes opcode 9 adds read(p1) to it; every other call of
\* step, whatever its result, leaves it as it was; and poke and execute_ex
\* leave the relative base of self as it was, the clone of execute_ex
\* starting from it.
C32_BaseOnlyByOpcode9 ==
    /\ [](/\ directSteps = 0 => prog.mem_offset = 0
          /\ (LastOk /\ LastOpcode = OPCODE_BASE) =>
                lastStep.after.mem_offset =
                    lastStep.before.mem_offset + LastOperand(1)
          /\ (lastStep.on # "none"
                /\ ~(LastOk /\ LastOpcode = OPCODE_BASE)) =>
                lastStep.after.mem_offset = lastStep.before.mem_offset)
    /\ [][/\ directSteps' = directSteps =>
                prog'.mem_offset = prog.mem_offset
          /\ (pc # "running" /\ pc' = "running") =>
                prg'[1].mem_offset = prog.mem_offset]_vars

\* The client has stepped opcode 9 with a RELATIVE operand on a Program whose
\* relative base was not 0, and has then poked it: the base is the sum.
C32_Witness ==
    /\ lastStep.on = "self"
    /\ LastOk
    /\ LastOpcode = OPCODE_BASE
    /\ LastMode(1) = 2
    /\ lastStep.before.mem_offset # 0
    /\ LastOperand(1) # 0
    /\ pokes = 1
    /\ pc = "idle"
    /\ prog.mem_offset = lastStep.before.mem_offset + LastOperand(1)
    /\ prog.mem # lastStep.after.mem

\* The cell of the memory after the latest step at the address of its
\* destination parameter, the parameter i.
LastStored(i) == lastStep.after.mem[LastAddr(i) + 1]

\* C33: a step that returns Ok has read each source operand in POSITION
\* mode from the cell at the parameter and in RELATIVE mode from the cell at
\* parameter + relative base, and has stored through a destination in
\* POSITION mode into the cell at the parameter and in RELATIVE mode into the
\* cell at parameter + relative base: the value output, the value stored by
\* opcodes 1, 2, 7, 8 and 3, the jump and the adjustment of the base are those
\* of the operands so resolved.
C33_OperandsByMode ==
    LastOk =>
        /\ LastOpcode = OPCODE_OUT => lastStep.outs = <<LastOperand(1)>>
        /\ LastOpcode = OPCODE_ADD =>
              LastStored(3) = LastOperand(1) + LastOperand(2)
        /\ LastOpcode = OPCODE_MUL =>
              LastStored(3) = LastOperand(1) * LastOperand(2)
        /\ LastOpcode = OPCODE_LT =>
              LastStored(3) = (IF LastOperand(1) < LastOperand(2) THEN 1
                               ELSE 0)
        /\ LastOpcode = OPCODE_EQ =>
              LastStored(3) = (IF LastOperand(1) = LastOperand(2) THEN 1
                               ELSE 0)
        /\ LastOpcode = OPCODE_IN =>
              /\ LastStored(1) \in StepInputValues
              /\ lastStep.on = "clone" => LastStored(1) = input
        /\ LastOpcode \in {OPCODE_ADD, OPCODE_MUL, OPCODE_LT, OPCODE_EQ} =>
              \A a \in 0..(Len(lastStep.before.mem) - 1) :
                 a # LastAddr(3) =>
                    lastStep.after.mem[a + 1] = lastStep.before.mem[a + 1]
        /\ LastOpcode = OPCODE_IN =>
              \A a \in 0..(Len(lastStep.before.mem) - 1) :
                 a # LastAddr(1) =>
                    lastStep.after.mem[a + 1] = lastStep.before.mem[a + 1]
        /\ LastOpcode \in {OPCODE_JIT, OPCODE_JIF} =>
              lastStep.after.instruction_index =
                 (IF LastJumpTaken THEN LastOperand(2)
                  ELSE lastStep.before.instruction_index + 3)
        /\ LastOpcode = OPCODE_BASE =>
              lastStep.after.mem_offset =
                 lastStep.before.mem_offset + LastOperand(1)

\* A step has multiplied two RELATIVE operands and stored the product through
\* a RELATIVE destination, with a relative base of -1: the cells at the
\* parameters themselves hold other values and another product.
C33_Witness ==
    /\ LastOk
    /\ LastOpcode = OPCODE_MUL
    /\ \A i \in 1..3 : LastMode(i) = 2
    /\ lastStep.before.mem_offset = -1
    /\ LastStored(3) = 20
    /\ lastStep.before.mem[LastParam(1) + 1]
          * lastStep.before.mem[LastParam(2) + 1] # 20
    /\ Len(lastStep.after.mem) = LastParam(3)

\* The number of parameters of the opcode of the latest step, and whether
\* one of their cells lies at or beyond the length of the memory.
LastParamCount == ParamCount(OperationOf(LastOpcode))

LastParamsCut ==
    lastStep.before.instruction_index + LastParamCount
        >= Len(lastStep.before.mem)

\* C35: when the cell at the instruction pointer is in the memory and holds
\* an opcode, and a cell of one of its parameters is at or beyond the length
\* of the memory, step takes that parameter as 0 and executes the
\* instruction: it does not fail.  (As claimed; Instruction::new indexes the
\* memory with buf[index + i + 1], which panics beyond the length.)
C35_FetchZeroExtends ==
    (/\ LastFetched
     /\ ~lastStep.halted_before
     /\ LastCell > 0
     /\ LastOpcode \in KnownOpcodes
     /\ LastParamsCut)
    => lastStep.result # "panic"

\* C36: a call of step that returns has returned the halted-program error
\* if and only if the Program is halted after the call; the step that
\* executes opcode 99 returns the error, so that a client that steps while
\* the result is Ok makes its last call at the halt instruction; and
\* is_halted of self is the flag the latest step on self left.
C36_ErrIffHalted ==
    (lastStep.on # "none" /\ lastStep.result # "panic") =>
        /\ lastStep.result \in {"Ok", "ProgramHalt"}
        /\ lastStep.result = "ProgramHalt" <=> lastStep.after.halted
        /\ (~lastStep.halted_before /\ LastOpcode = OPCODE_HALT) =>
              lastStep.result = "ProgramHalt"
        /\ lastStep.result = "Ok" => ~lastStep.halted_before
        /\ lastStep.on = "self" => prog.halted = lastStep.after.halted

\* The client has stepped a Program twice: the first call returned Ok, the
\* second executed opcode 99 and returned the error, and the Program is
\* halted.
C36_Witness ==
    /\ lastStep.on = "self"
    /\ directSteps = 2
    /\ ~lastStep.halted_before
    /\ lastStep.before.instruction_index > 0
    /\ LastFetched
    /\ LastOpcode = OPCODE_HALT
    /\ lastStep.result = "ProgramHalt"
    /\ prog.halted
    /\ pc = "idle"

\* C37: a step that returns Ok from opcode 1, 2, 3, 7 or 8 leaves every
\* cell other than the one at the address of its destination as it was, the
\* memory growing, if at all, by cells that are 0 up to that address; a step
\* of opcode 4, 5, 6, 9 or 99 that returns, and a step rejected because the
\* Program was halted, leave the cells and the length of the memory as they
\* were.
C37_MemoryFrame ==
    (lastStep.on # "none" /\ lastStep.result # "panic") =>
        LET before == lastStep.before.mem
            after == lastStep.after.mem
        IN  IF LastOk /\ LastOpcode \in {OPCODE_ADD, OPCODE_MUL, OPCODE_IN,
                                         OPCODE_LT, OPCODE_EQ}
            THEN LET dest == LastAddr(LastParamCount)
                 IN  /\ Len(after) = (IF dest >= Len(before) THEN dest + 1
                                      ELSE Len(before))
                     /\ \A a \in 0..(Len(after) - 1) :
                          a # dest =>
                             after[a + 1] = (IF a < Len(before)
                                             THEN before[a + 1] ELSE 0)
            ELSE after = before

\* A step has stored a product into a cell in the middle of the memory,
\* changing it, and a later step of another opcode has left the memory as it
\* was.
C37_Witness ==
    /\ lastStep.on = "clone"
    /\ LastOk
    /\ LastOpcode = OPCODE_MUL
    /\ LastAddr(3) < Len(lastStep.before.mem) - 1
    /\ LastStored(3) # lastStep.before.mem[LastAddr(3) + 1]
    /\ Len(lastStep.after.mem) = Len(lastStep.before.mem)
    /\ lastStep.after.mem[LastAddr(3) + 2]
          = lastStep.before.mem[LastAddr(3) + 2]
    /\ lastStep.after.mem[LastAddr(3) + 2] # 0

\* ------------------------------------------- a step suspended at its input
\* A step of opcode 3 in two parts: up to the call of input_fn, and from its
\* return.  input_fn is an argument of the call of write (lib.rs:252-258),
\* so it runs after `self.instruction_index += 1` and `self.output = None`
\* (lib.rs:220-221) and before anything is stored.
MaxSuspendSteps == 4

SuspendTexts == {Echo, EqDirect, JumpDirect, WriteBeyond, DirectDestIn,
                 OpsInRel}

InitSuspend ==
    /\ text \in SuspendTexts
    /\ prog = from_str(text)
    /\ prg = <<>>
    /\ pc = "idle"
    /\ input = 0
    /\ out = <<>>
    /\ inCalls = 0
    /\ stepCalls = 0
    /\ postHaltSteps = 0
    /\ directSteps = 0
    /\ callee = from_str(text)
    /\ runs = <<>>
    /\ lastStep = NoStep
    /\ pokes = 0
    /\ NoClients

\* The next call of step on p will call input_fn: p is not halted and the
\* instruction decodes to opcode 3.
AtInput(p) ==
    LET instruction == InstructionNew(p.mem, p.instruction_index)
    IN  instruction.panic = "none" /\ ~p.halted /\ instruction.op = "IN"

\* A step enters input_fn having already cleared the cell the input is for.
InputEnter_clears_dest ==
    LET instruction == InstructionNew(prog.mem, prog.instruction_index)
        w == write(prog.mem, 0, instruction.params[1],
                   instruction.param_modes[1], prog.mem_offset)
    IN  /\ pc = "idle"
        /\ directSteps < MaxSuspendSteps
        /\ AtInput(prog)
        /\ prog' = [prog EXCEPT !.instruction_index = @ + 1,
                                !.output = <<>>, !.mem = w.mem]
        /\ pc' = "in_input"
        /\ lastStep' = [NoStep EXCEPT !.on = "self", !.before = prog,
                                      !.after = prog', !.result = "suspended",
                                      !.in_calls = 1]
        /\ directSteps' = directSteps + 1
        /\ UNCHANGED <<text, prg, input, out, inCalls, stepCalls,
                       postHaltSteps, callee, runs, pokes>>
        /\ UNCHANGED clientVars

\* The client calls prog.step and the step calls input_fn: the Program while
\* the call is under way.
InputEnter ==
    /\ pc = "idle"
    /\ directSteps < MaxSuspendSteps
    /\ AtInput(prog)
    /\ prog' = [prog EXCEPT !.instruction_index = @ + 1, !.output = <<>>]
    /\ pc' = "in_input"
    /\ lastStep' = [NoStep EXCEPT !.on = "self", !.before = prog,
                                  !.after = prog', !.result = "suspended",
                                  !.in_calls = 1]
    /\ directSteps' = directSteps + 1
    /\ UNCHANGED <<text, prg, input, out, inCalls, stepCalls, postHaltSteps,
                   callee, runs, pokes>>
    /\ UNCHANGED clientVars

\* input_fn returns v: write stores it and the step ends.
InputReturns(v) ==
    LET before == lastStep.before
        instruction == InstructionNew(before.mem, before.instruction_index)
        w == write(prog.mem, v, instruction.params[1],
                   instruction.param_modes[1], prog.mem_offset)
        r == IF w.panic # "none"
             THEN StepOutcome(prog, "panic", w.panic, 1, <<>>)
             ELSE StepOutcome([prog EXCEPT !.mem = w.mem,
                                           !.instruction_index = @ + 1],
                              "Ok", "none", 1, <<>>)
    IN  /\ pc = "in_input"
        /\ prog' = r.prg
        /\ pc' = IF r.result = "panic" THEN "panicked" ELSE "idle"
        /\ lastStep' = StepRecord("self", before, r)
        /\ input' = v
        /\ UNCHANGED <<text, prg, out, inCalls, stepCalls, postHaltSteps,
                       directSteps, callee, runs, pokes>>
        /\ UNCHANGED clientVars

\* input_fn does not return: it panics, as rx.recv().unwrap() does on a
\* closed channel (day7 main.rs:77), and the Program stays as it is.
InputPanics ==
    /\ pc = "in_input"
    /\ pc' = "panicked"
    /\ UNCHANGED <<text, prog, prg, input, out, inCalls, stepCalls,
                   postHaltSteps, directSteps, callee, runs, lastStep, pokes>>
    /\ UNCHANGED clientVars

\* A call of step that does not call input_fn.
StepWhole ==
    LET r == step(prog, 0)
    IN  /\ pc = "idle"
        /\ directSteps < MaxSuspendSteps
        /\ ~AtInput(prog)
        /\ prog' = r.prg
        /\ pc' = IF r.result = "panic" THEN "panicked" ELSE "idle"
        /\ lastStep' = StepRecord("self", prog, r)
        /\ directSteps' = directSteps + 1
        /\ UNCHANGED <<text, prg, input, out, inCalls, stepCalls,
                       postHaltSteps, callee, runs, pokes>>
        /\ UNCHANGED clientVars

NextSuspend ==
    \/ InputEnter
    \/ \E v \in InputValues : InputReturns(v)
    \/ InputPanics
    \/ StepWhole

SpecSuspend == InitSuspend /\ [][NextSuspend]_vars

\* C34 as claimed: while a step is inside the call of the input source, the
\* memory, the instruction pointer, the relative base and the halted flag
\* of the Program are those before the step began.
C34_UnchangedDuringInput ==
    pc = "in_input" =>
        /\ prog.mem = lastStep.before.mem
        /\ prog.instruction_index = lastStep.before.instruction_index
        /\ prog.mem_offset = lastStep.before.mem_offset
        /\ prog.halted = lastStep.before.halted

\* C34, amended: while a step is inside the call of the input source, the
\* memory, the relative base and the halted flag are those before the step
\* began and the instruction pointer is one past the opcode; nothing changes
\* them until the call ends; and when it has returned v the Program is what
\* one whole step with that input makes of the Program before the step: the
\* store and the rest of the advance come after the return.
C34_AdvancedOnceDuringInput ==
    /\ [](/\ pc = "in_input" =>
                /\ prog.mem = lastStep.before.mem
                /\ prog.instruction_index =
                      lastStep.before.instruction_index + 1
                /\ prog.mem_offset = lastStep.before.mem_offset
                /\ prog.halted = lastStep.before.halted
          /\ (pc = "idle" /\ lastStep.on = "self" /\ lastStep.in_calls = 1)
                => /\ prog = step(lastStep.before, input).prg
                   /\ prog.instruction_index =
                         lastStep.before.instruction_index + 2)
    /\ [][(pc = "in_input" /\ pc' = "in_input") => prog' = prog]_vars
    /\ [][(pc = "in_input" /\ pc' = "panicked"
              /\ lastStep'.result = "suspended") => prog' = prog]_vars

\* A step is inside the call of the input source, on a Program whose
\* relative base is not 0 and whose input goes beyond the memory: the
\* pointer is one past the opcode and the memory has not grown.
C34_Witness ==
    /\ pc = "in_input"
    /\ lastStep.before.mem_offset # 0
    /\ lastStep.before.instruction_index > 0
    /\ prog.instruction_index = lastStep.before.instruction_index + 1
    /\ prog.mem = lastStep.before.mem
    /\ LastAddr(1) >= Len(prog.mem)

\* ------------------------------------------------- negative addresses
\* Texts whose operands have negative effective addresses: sources of every
\* opcode that reads, in position and in relative mode, and destinations of
\* the opcodes that write.
NegOutPos == <<Num(4), Num(-1), Num(99)>>
NegOutFar == <<Num(4), NegNumeral(TwoPow50.digits), Num(99)>>
NegOutRel == <<Num(109), Num(-5), Num(204), Num(2), Num(99)>>
NegOutWrap == <<Num(109), I64Max, Num(204), Num(1), Num(99)>>
NegAddSrc == <<Num(1), Num(-1), Num(0), Num(5), Num(99), Num(7)>>
NegMulSrc == <<Num(2002), Num(-3), Num(6), Num(5), Num(99), Num(7)>>
NegEqSrc == <<Num(8), Num(-1), Num(-2), Num(5), Num(99), Num(7)>>
NegLtSrc == <<Num(1007), Num(-2), Num(1), Num(5), Num(99), Num(7)>>
NegJitSrc == <<Num(5), Num(-1), Num(0), Num(99)>>
NegJifSrc == <<Num(6), Num(-1), Num(-2), Num(99)>>
NegJifDst == <<Num(1006), Num(0), Num(-4), Num(99)>>
NegBaseSrc == <<Num(9), Num(-1), Num(204), Num(0), Num(99)>>
NegInTwo == <<Num(3), Num(-2), Num(99)>>
NegInRel == <<Num(109), Num(-3), Num(203), Num(1), Num(99)>>
NegInRelOne == <<Num(109), Num(-3), Num(203), Num(2), Num(99)>>
NegAddDst == <<Num(1101), Num(1), Num(2), Num(-1), Num(99)>>
NegMulDst == <<Num(1102), Num(2), Num(3), Num(-7), Num(99)>>
NegLtDst == <<Num(21107), Num(1), Num(2), Num(-1), Num(99)>>

NegTexts == {NegOutPos, NegOutFar, NegOutRel, NegOutWrap, NegAddSrc,
             NegMulSrc, NegEqSrc, NegLtSrc, NegJitSrc, NegJifSrc, NegJifDst,
             NegBaseSrc, StoreMinusOne, NegInTwo, NegInRel, NegInRelOne,
             NegAddDst, NegMulDst, NegLtDst, Echo64}

InitNeg ==
    /\ text \in NegTexts
    /\ prog = from_str64(text)
    /\ prg = <<>>
    /\ pc = "idle"
    /\ input = I64(0)
    /\ out = <<>>
    /\ inCalls = 0
    /\ stepCalls = 0
    /\ postHaltSteps = 0
    /\ directSteps = 0
    /\ callee = from_str64(text)
    /\ runs = <<>>
    /\ lastStep = NoStep64
    /\ pokes = 0
    /\ NoClients

\* The addresses and the value the client pokes here.
PokeAddrs64 == {I64(-1), I64(-2), parse(NegNumeral(TwoPow50.digits)), I64(1)}

PokeValue64 == I64(77)

\* The client calls prog.poke(addr, val) on i64 cells, in a build with or
\* without overflow checks.
Poke64(addr, val, checks) ==
    /\ pc = "idle"
    /\ pokes < MaxPokes
    /\ LET w == write64(prog.mem, val, addr, "POSITION", I64(0), checks)
       IN  /\ prog' = [prog EXCEPT !.mem = w.mem]
           /\ pc' = IF w.panic # "none" THEN "panicked" ELSE "idle"
    /\ pokes' = pokes + 1
    /\ UNCHANGED <<text, prg, input, out, inCalls, stepCalls, postHaltSteps,
                   directSteps, callee, runs, lastStep>>
    /\ UNCHANGED clientVars

NextNeg ==
    \/ \E v \in WideInputValues, checks \in BOOLEAN : StepCall64(v, checks)
    \/ \E addr \in PokeAddrs64, checks \in BOOLEAN :
          Poke64(addr, PokeValue64, checks)

SpecNeg == InitNeg /\ [][NextNeg]_vars

\* The effective address of parameter i of the latest instruction, as the
\* i64 it is before the conversion to usize.
LastEff64(i) ==
    IF LastInstr64.param_modes[i] = "POSITION" THEN LastInstr64.params[i]
    ELSE Add64(LastInstr64.params[i], lastStep.before.mem_offset)

\* Parameter i of the latest instruction is an operand in memory whose
\* effective address is negative.
LastNeg64(i) ==
    /\ i <= Len(LastInstr64.params)
    /\ LastInstr64.param_modes[i] # "DIRECT"
    /\ IsNeg64(LastEff64(i))

\* What the claim says parameter i reads: 0 through a negative address.
LastSource64(i) == IF LastNeg64(i) THEN I64(0) ELSE LastOperand64(i)

\* Every cell of the memory new is a cell of the memory old with the value
\* it had.
NoCellOverwritten(old, new) ==
    /\ Len(new) <= Len(old)
    /\ \A i \in 1..Len(new) : new[i] = old[i]

\* The latest step read a source through a negative address and did not
\* panic.
NegativeRead ==
    /\ LastExecuted64
    /\ lastStep.result # "panic"
    /\ \/ LastInstr64.op \in {"OUT", "BASE", "JIT", "JIF"} /\ LastNeg64(1)
       \/ LastInstr64.op \in {"JIT", "JIF"} /\ LastNeg64(2)
       \/ LastInstr64.op \in {"ADD", "MUL", "LT", "EQ"}
            /\ (LastNeg64(1) \/ LastNeg64(2))

\* The latest step had a destination with a negative address, and reached
\* its write.
NegativeWrite ==
    /\ LastExecuted64
    /\ \/ LastInstr64.op = "IN" /\ LastNeg64(1)
       \/ LastInstr64.op \in {"ADD", "MUL", "LT", "EQ"} /\ LastNeg64(3)

\* C38: no instruction reads or overwrites an existing cell through a
\* negative effective address.  A step whose source has a negative address
\* takes 0 for it: the output is 0, the base stays, the jump is decided and
\* aimed by 0, the stored result is that of the operation on 0; and such a
\* read leaves the memory as it is.  A step whose destination has a negative
\* address, and a poke to a negative address, does not succeed, and every
\* cell there is afterwards is a cell there was before, with its value.
C38_NoNegativeAccess ==
    /\ [](/\ (NegativeRead /\ LastInstr64.op = "OUT")
                => /\ lastStep.outs = <<I64(0)>>
                   /\ lastStep.after.mem = lastStep.before.mem
          /\ (NegativeRead /\ LastInstr64.op = "BASE")
                => /\ lastStep.after.mem_offset = lastStep.before.mem_offset
                   /\ lastStep.after.mem = lastStep.before.mem
          /\ (NegativeRead /\ LastInstr64.op \in {"JIT", "JIF"})
                => /\ lastStep.after.instruction_index =
                         IF (LastInstr64.op = "JIT")
                               = (LastSource64(1) # I64(0))
                         THEN AsUsize(LastSource64(2))
                         ELSE lastStep.before.instruction_index + 3
                   /\ lastStep.after.mem = lastStep.before.mem
          /\ (/\ NegativeRead
              /\ LastInstr64.op \in {"ADD", "MUL", "LT", "EQ"}
              /\ ~LastNeg64(3))
                => /\ lastStep.result = "Ok"
                   /\ lastStep.after.mem[AsUsize(LastEff64(3)) + 1] =
                         OpFn64(LastInstr64.op, LastSource64(1),
                                LastSource64(2), FALSE).value
                   /\ \A i \in 1..Len(lastStep.before.mem) :
                         i # AsUsize(LastEff64(3)) + 1
                            => lastStep.after.mem[i] = lastStep.before.mem[i]
          /\ NegativeWrite
                => /\ lastStep.result = "panic"
                   /\ NoCellOverwritten(lastStep.before.mem,
                                        lastStep.after.mem))
    /\ [][\A addr \in PokeAddrs64, checks \in BOOLEAN :
             (IsNeg64(addr) /\ Poke64(addr, PokeValue64, checks))
                => /\ pc' = "panicked"
                   /\ NoCellOverwritten(prog.mem, prog'.mem)]_vars

\* A step has compared two cells at negative addresses and stored 1, for
\* 0 = 0, in an existing cell.
C38_Witness ==
    /\ text = NegEqSrc
    /\ NegativeRead
    /\ LastNeg64(1) /\ LastNeg64(2)
    /\ lastStep.before.mem[6] = I64(7)
    /\ lastStep.after.mem[6] = I64(1)
    /\ pc = "idle"

\* Other cases the formula of C38 is about.
C38_WitnessWrite ==
    /\ NegativeWrite
    /\ lastStep.after.mem = <<>>
    /\ lastStep.before.mem # <<>>

C38_WitnessPoke == pc = "panicked" /\ pokes = 1 /\ prog.mem = <<>>

C38_WitnessRel ==
    /\ NegativeRead
    /\ LastInstr64.op = "OUT"
    /\ LastInstr64.param_modes[1] = "RELATIVE"
    /\ ~IsNeg64(LastInstr64.params[1])

\* ------------------------------------------ day23: packets are not split
\* The last packet taken from the queue of node n.
LastDelivered(s, n) == s.delivered[n + 1][Len(s.delivered[n + 1])]

\* The step just taken took a packet from the queue of the current node and
\* gave its x to the node.
GaveX ==
    /\ sched.pc = "stepping"
    /\ Len(sched'.delivered[sched.node + 1])
          = Len(sched.delivered[sched.node + 1]) + 1

\* A state of the main loop in the middle of a packet of the current node:
\* an x given without its y, or a triple begun.
MidPacket == sched.recv_buffer # <<>> \/ sched.send_buffer # <<>>

\* C39: the scheduler of day 23 never leaves a node in the middle of a
\* packet.  Once a node has been given the x of a packet taken from its
\* queue, the same node is stepped until it asks for input again, and that
\* request returns the y of that packet, also when other packets wait in
\* the queue; meanwhile the y is kept.  Once a node has emitted the first
\* value of a triple the same node is stepped until the triple is complete:
\* every node other than the one being visited has emitted whole triples
\* only, and a turn of the main loop steps the visited node and no other.
C39_NoSwitchMidPacket ==
    /\ [](/\ MidPacket => sched.pc \in {"stepping", "panicked"}
          /\ sched.recv_buffer # <<>> =>
                sched.recv_buffer =
                   <<LastDelivered(sched, sched.node)[2]>>
          /\ sched.pc = "stepping" =>
                /\ (Len(sched.emitted[sched.node + 1]) % 3 # 0)
                      = (sched.send_buffer # <<>>)
                /\ \A m \in 0..(NODE_COUNT - 1) :
                      m # sched.node => Len(sched.emitted[m + 1]) % 3 = 0)
    /\ [][(GaveX /\ sched'.pc # "panicked") =>
             /\ sched'.pc = "stepping"
             /\ sched'.node = sched.node
             /\ sched'.last_input.value = LastDelivered(sched', sched.node)[1]
             /\ sched'.recv_buffer = <<LastDelivered(sched', sched.node)[2]>>
          ]_vars
    /\ [][(sched.pc = "stepping" /\ MidPacket) =>
             /\ \A m \in 1..NODE_COUNT :
                   nodes'[m] # nodes[m] => m = sched.node + 1
             /\ sched'.pc \in {"stepping", "panicked", "idle_check"}
             /\ (sched'.pc = "stepping" /\ sched'.node # sched.node)
                   => sched'.recv_buffer = <<>> /\ sched'.send_buffer = <<>>
             /\ (sched'.pc = "idle_check")
                   => sched'.recv_buffer = <<>> /\ sched'.send_buffer = <<>>
             /\ sched.recv_buffer # <<>> =>
                   \/ /\ sched'.last_input = NoInputCall
                      /\ sched'.recv_buffer = sched.recv_buffer
                      /\ sched'.pc = "panicked" \/ sched'.node = sched.node
                   \/ /\ sched'.last_input.node = sched.node
                      /\ sched'.last_input.pending
                      /\ sched'.last_input.value = sched.recv_buffer[1]
                      /\ sched'.last_input.value
                            = LastDelivered(sched, sched.node)[2]
                      /\ sched'.delivered = sched.delivered
                      /\ sched'.recv_buffer = <<>>
          ]_vars

\* Node 0, with a second packet waiting in its queue, has asked for input
\* after the x of the first packet and received the y of the first; and a
\* node has sent a whole triple before.
C39_Witness ==
    /\ sched.last_input.node = 0
    /\ sched.last_input.pending
    /\ sched.last_input.queue # <<>>
    /\ sched.last_input.value = LastDelivered(sched, 0)[2]
    /\ sched.last_input.value # sched.last_input.queue[1][1]
    /\ sched.last_input.value # sched.last_input.queue[1][2]
    /\ sched.last_input.value # -1
    /\ sched.sent # <<>>

\* A node in the middle of a triple, two values emitted, being stepped.
C39_WitnessTriple ==
    /\ sched.pc = "stepping"
    /\ Len(sched.send_buffer) = 2
    /\ sched.node > 0
    /\ sched.recv_buffer = <<>>

====
